---- MODULE Spec2Model ----
(***************************************************************************)
(* Model of the county risk pipeline: the risk-index calculator            *)
(* (utils/data_processing.py), the series augmenter and the forecast       *)
(* orchestrator (models/forecasting.py, models/predictor.py), and the      *)
(* county-name normalizers (utils/helpers.py, utils/geocode.py,            *)
(* models/predictor.py).                                                   *)
(*                                                                         *)
(* Each part of the pipeline has its own specification over the shared     *)
(* variables; the variables a specification does not use stay at their     *)
(* idle values.                                                            *)
(***************************************************************************)
EXTENDS Integers, Sequences, FiniteSets, TLC

VARIABLES
    \* ---- series augmenter (models/forecasting.py) ----
    county_data,     \* the rows of one county handed to prepare_county_time_series
    min_points,      \* the required minimum M
    aug_pc,          \* "start" | "done"
    aug_called,      \* TRUE when prepare_county_time_series called augment_time_series
    aug_in,          \* the cleaned series (sorted, missing values and dates dropped)
    aug_out,         \* what augment_time_series returned
    county_ts,       \* what prepare_county_time_series returned
    \* ---- county-name normalizers ----
    norm_fn,         \* which normalizer runs: "helpers" | "predictor"
    raw_a, raw_b,    \* two raw county strings
    norm_pc,         \* "start" | "done"
    out_a, out_b,    \* what the normalizer returned for raw_a and raw_b
    \* ---- risk-index calculator (utils/data_processing.py) ----
    merged_ts,       \* the merged table handed to calculate_risk_index
    risk_pc,         \* "start" | "done"
    risk_out,        \* the table calculate_risk_index returned
    \* ---- forecast orchestrator and pipeline (models/forecasting.py, models/predictor.py) ----
    fc_impl,         \* "forecasting" | "predictor": which forecast_risk_by_county runs
    fc_entry,        \* "main": predictor.py run as a script | "call": a caller of the function
    API_KEY,         \* credential: "None" | "" | "key"
    PROJECT_ID,      \* credential: "None" | "" | "project"
    client,          \* "None" | "client"
    data,            \* the preprocessed table
    fc_pc,           \* position of the run
    fc_idx,          \* index of the county the loop is at
    results,         \* the records appended so far
    ts_model,        \* TRUE once TSModelInference was constructed
    fc_log,          \* one entry per county the loop has handled
    fc_error,        \* the exception that ended the run, "none" if none
    save_called,     \* TRUE once save_results was called
    regional_risk_csv,   \* the output file
    csv_before,      \* the output file as it was when the run started
    \* ---- a county-name normalizer applied to its own result ----
    idem_fn,         \* "helpers" | "geocode"
    idem_raw,        \* the raw county string
    idem_pc,         \* "start" | "once" | "twice"
    idem_once,       \* normalize(raw)
    idem_twice,      \* normalize(normalize(raw))
    \* ---- period parser (utils/helpers.py) ----
    period_src,      \* how the period string was made: encoding, year, month
    period,          \* the period string
    period_pc,       \* "start" | "done"
    period_date,     \* what parse_period_to_date returned
    \* ---- preprocess_data (utils/data_processing.py) ----
    federal_df,      \* the four tables read from the CSV files
    unemployment_df,
    snap_df,
    cost_df,
    federal_ts,      \* the four fragments
    unemployment_ts,
    snap_latest,
    cost_latest,
    preprocessed,    \* the table preprocess_data returns
    prep_pc,         \* "federal" | "unemployment" | "snap" | "cost" | "merge" | "done" | "raised"
    \* ---- coordinate resolver (utils/geocode.py) ----
    COUNTY_LOOKUP,   \* the cached gazetteer lookup, in insertion order
    geo_county,      \* the arguments of get_county_coordinates
    geo_state,
    geo_pc,          \* "start" | "done"
    coordinates,     \* the (lat, lon) returned
    \* ---- CSV reader (utils/helpers.py, models/predictor.py) ----
    csv_reader,      \* "helpers" | "predictor"
    csv_file,        \* the file at the path: whether it exists, and its bytes
    csv_pc,          \* "start" | "done"
    csv_out,         \* the outcome: the exception raised or the decoded text
    \* ---- numeric cleaner (utils/helpers.py, models/predictor.py) ----
    num_fn,          \* "helpers" | "predictor"
    num_cell,        \* the cell of the series
    num_pc,          \* "start" | "done"
    num_out,         \* the cleaned value
    \* ---- presentation layer (main.py, ui/dashboard.py) ----
    ui_impl,         \* "main": Dashboard of main.py | "dashboard": DashboardWidget
    ui_file,         \* regional_risk.csv: whether it exists, its columns and its rows
    ui_pc,           \* "start" | "done"
    ui_view,         \* what the map view shows when start-up ends
    ui_exc,          \* the exception that ended start-up, "none" if none
    \* ---- gazetteer cache (utils/geocode.py) ----
    load_mode,       \* "sequential": one call at a time | "concurrent": threads interleave
    gaz_file,        \* uscounties.csv: whether it can be read, and its rows
    dicts,           \* every dict _load_county_lookup created, in order of creation
    lookup_cache,    \* _COUNTY_LOOKUP: 0 for None, else the index of a dict in dicts
    caller,          \* per thread: position in the call, its local `lookup`, rows still to insert
    file_reads,      \* how many times the file was read
    file_changes,    \* how many times the file was replaced during the run
    calls,           \* how many calls of get_county_coordinates have started
    consulted        \* per finished call, in order: the dict it consulted and its contents then

augVars == <<county_data, min_points, aug_pc, aug_called, aug_in, aug_out, county_ts>>

normVars == <<norm_fn, raw_a, raw_b, norm_pc, out_a, out_b>>

riskVars == <<merged_ts, risk_pc, risk_out>>

fcVars == <<fc_impl, fc_entry, API_KEY, PROJECT_ID, client, data, fc_pc, fc_idx, results,
           ts_model, fc_log, fc_error, save_called, regional_risk_csv, csv_before>>

idemVars == <<idem_fn, idem_raw, idem_pc, idem_once, idem_twice>>

periodVars == <<period_src, period, period_pc, period_date>>

prepVars == <<federal_df, unemployment_df, snap_df, cost_df, federal_ts, unemployment_ts,
              snap_latest, cost_latest, preprocessed, prep_pc>>

geoVars == <<COUNTY_LOOKUP, geo_county, geo_state, geo_pc, coordinates>>

csvVars == <<csv_reader, csv_file, csv_pc, csv_out>>

numVars == <<num_fn, num_cell, num_pc, num_out>>

uiVars == <<ui_impl, ui_file, ui_pc, ui_view, ui_exc>>

loadVars == <<load_mode, gaz_file, dicts, lookup_cache, caller, file_reads, file_changes,
              calls, consulted>>

vars == <<augVars, normVars, riskVars, fcVars, idemVars, periodVars, prepVars, geoVars,
          csvVars, numVars, uiVars, loadVars>>

\* Python's None as the result of a function that returns a string or None
None == [some |-> FALSE, s |-> <<>>]

Some(str) == [some |-> TRUE, s |-> str]

AugIdle ==
    /\ county_data = <<>>
    /\ min_points = 0
    /\ aug_pc = "idle"
    /\ aug_called = FALSE
    /\ aug_in = <<>>
    /\ aug_out = <<>>
    /\ county_ts = [ok |-> FALSE, rows |-> <<>>]

NormIdle ==
    /\ norm_fn = "idle"
    /\ raw_a = <<>>
    /\ raw_b = <<>>
    /\ norm_pc = "idle"
    /\ out_a = None
    /\ out_b = None

RiskIdle ==
    /\ merged_ts = <<>>
    /\ risk_pc = "idle"
    /\ risk_out = <<>>

NoFile == [exists |-> FALSE, rows |-> <<>>]

FcIdle ==
    /\ fc_impl = "idle"
    /\ fc_entry = "idle"
    /\ API_KEY = "None"
    /\ PROJECT_ID = "None"
    /\ client = "None"
    /\ data = <<>>
    /\ fc_pc = "idle"
    /\ fc_idx = 0
    /\ results = <<>>
    /\ ts_model = FALSE
    /\ fc_log = <<>>
    /\ fc_error = "none"
    /\ save_called = FALSE
    /\ regional_risk_csv = NoFile
    /\ csv_before = NoFile

IdemIdle ==
    /\ idem_fn = "idle"
    /\ idem_raw = <<>>
    /\ idem_pc = "idle"
    /\ idem_once = None
    /\ idem_twice = None

PeriodIdle ==
    /\ period_src = [enc |-> "idle", year |-> 0, month |-> 0, form |-> "asis"]
    /\ period = <<>>
    /\ period_pc = "idle"
    /\ period_date = [some |-> FALSE, date |-> 0]

PrepIdle ==
    /\ federal_df = <<>>
    /\ unemployment_df = <<>>
    /\ snap_df = <<>>
    /\ cost_df = <<>>
    /\ federal_ts = <<>>
    /\ unemployment_ts = <<>>
    /\ snap_latest = <<>>
    /\ cost_latest = <<>>
    /\ preprocessed = <<>>
    /\ prep_pc = "idle"

GeoIdle ==
    /\ COUNTY_LOOKUP = <<>>
    /\ geo_county = [t |-> "none", f |-> [k |-> "nan", n |-> 0, d |-> 1], s |-> <<>>]
    /\ geo_state = [t |-> "none", f |-> [k |-> "nan", n |-> 0, d |-> 1], s |-> <<>>]
    /\ geo_pc = "idle"
    /\ coordinates = <<[k |-> "nan", n |-> 0, d |-> 1],
                      [k |-> "nan", n |-> 0, d |-> 1]>>

CsvIdle ==
    /\ csv_reader = "idle"
    /\ csv_file = [exists |-> FALSE, bytes |-> <<>>]
    /\ csv_pc = "idle"
    /\ csv_out = [exc |-> "none", encoding |-> "", text |-> <<>>]

NumIdle ==
    /\ num_fn = "idle"
    /\ num_cell = [t |-> "none", f |-> [k |-> "nan", n |-> 0, d |-> 1], s |-> <<>>]
    /\ num_pc = "idle"
    /\ num_out = [k |-> "nan", n |-> 0, d |-> 1]

UiIdle ==
    /\ ui_impl = "idle"
    /\ ui_file = [exists |-> FALSE, columns |-> {}, rows |-> <<>>]
    /\ ui_pc = "idle"
    /\ ui_view = "blank"
    /\ ui_exc = "none"

LoadIdle ==
    /\ load_mode = "idle"
    /\ gaz_file = [readable |-> FALSE, rows |-> <<>>]
    /\ dicts = <<>>
    /\ lookup_cache = 0
    /\ caller = <<>>
    /\ file_reads = 0
    /\ file_changes = 0
    /\ calls = 0
    /\ consulted = <<>>

\* the parts of the pipeline other than `me` stay idle
OthersIdle(me) ==
    /\ IF me = "aug" THEN TRUE ELSE AugIdle
    /\ IF me = "norm" THEN TRUE ELSE NormIdle
    /\ IF me = "risk" THEN TRUE ELSE RiskIdle
    /\ IF me = "fc" THEN TRUE ELSE FcIdle
    /\ IF me = "idem" THEN TRUE ELSE IdemIdle
    /\ IF me = "period" THEN TRUE ELSE PeriodIdle
    /\ IF me = "prep" THEN TRUE ELSE PrepIdle
    /\ IF me = "geo" THEN TRUE ELSE GeoIdle
    /\ IF me = "csv" THEN TRUE ELSE CsvIdle
    /\ IF me = "num" THEN TRUE ELSE NumIdle
    /\ IF me = "ui" THEN TRUE ELSE UiIdle
    /\ IF me = "load" THEN TRUE ELSE LoadIdle

OthersUnchanged(me) ==
    /\ IF me = "aug" THEN TRUE ELSE UNCHANGED augVars
    /\ IF me = "norm" THEN TRUE ELSE UNCHANGED normVars
    /\ IF me = "risk" THEN TRUE ELSE UNCHANGED riskVars
    /\ IF me = "fc" THEN TRUE ELSE UNCHANGED fcVars
    /\ IF me = "idem" THEN TRUE ELSE UNCHANGED idemVars
    /\ IF me = "period" THEN TRUE ELSE UNCHANGED periodVars
    /\ IF me = "prep" THEN TRUE ELSE UNCHANGED prepVars
    /\ IF me = "geo" THEN TRUE ELSE UNCHANGED geoVars
    /\ IF me = "csv" THEN TRUE ELSE UNCHANGED csvVars
    /\ IF me = "num" THEN TRUE ELSE UNCHANGED numVars
    /\ IF me = "ui" THEN TRUE ELSE UNCHANGED uiVars
    /\ IF me = "load" THEN TRUE ELSE UNCHANGED loadVars

(***************************************************************************)
(* Floating-point values.  A float is a record: k is "fin" for a finite    *)
(* value n/d (an exact fraction in lowest terms, d > 0), "nan", "pinf" or  *)
(* "ninf".  Finite arithmetic is exact; the IEEE special values follow the *)
(* rules numpy and pandas apply (x/0 is +-inf, 0/0 and inf-inf are NaN,    *)
(* every comparison with NaN is false).                                    *)
(***************************************************************************)
Abs(x) == IF x < 0 THEN -x ELSE x

RECURSIVE Gcd(_, _)
Gcd(a, b) == IF b = 0 THEN a ELSE Gcd(b, a % b)

Sign(x) == IF x > 0 THEN 1 ELSE IF x < 0 THEN -1 ELSE 0

NaN  == [k |-> "nan",  n |-> 0, d |-> 1]
PInf == [k |-> "pinf", n |-> 0, d |-> 1]
NInf == [k |-> "ninf", n |-> 0, d |-> 1]

\* the finite float n/d, d # 0, in lowest terms with a positive denominator
Fin(n, d) ==
    LET g == Gcd(Abs(n), Abs(d))
        s == IF d < 0 THEN -1 ELSE 1
    IN  [k |-> "fin", n |-> (s * n) \div g, d |-> (s * d) \div g]

Num(i) == Fin(i, 1)

IsNaN(x)    == x.k = "nan"
IsInf(x)    == x.k \in {"pinf", "ninf"}
IsFinite(x) == x.k = "fin"

\* the infinity of sign s (s # 0)
InfOf(s) == IF s > 0 THEN PInf ELSE NInf

\* sign of a non-NaN float
FSign(x) == IF x.k = "pinf" THEN 1 ELSE IF x.k = "ninf" THEN -1 ELSE Sign(x.n)

FNeg(x) ==
    CASE x.k = "fin"  -> Fin(-x.n, x.d)
      [] x.k = "pinf" -> NInf
      [] x.k = "ninf" -> PInf
      [] OTHER        -> NaN

FAdd(x, y) ==
    CASE IsNaN(x) \/ IsNaN(y)       -> NaN
      [] IsFinite(x) /\ IsFinite(y) -> Fin(x.n * y.d + y.n * x.d, x.d * y.d)
      [] IsInf(x) /\ IsInf(y)       -> IF x.k = y.k THEN x ELSE NaN
      [] IsInf(x)                   -> x
      [] OTHER                      -> y

FSub(x, y) == FAdd(x, FNeg(y))

FMul(x, y) ==
    CASE IsNaN(x) \/ IsNaN(y)       -> NaN
      [] IsFinite(x) /\ IsFinite(y) -> Fin(x.n * y.n, x.d * y.d)
      [] FSign(x) * FSign(y) = 0    -> NaN
      [] OTHER                      -> InfOf(FSign(x) * FSign(y))

FDiv(x, y) ==
    CASE IsNaN(x) \/ IsNaN(y)       -> NaN
      [] IsInf(x) /\ IsInf(y)       -> NaN
      [] IsInf(x)                   -> InfOf(FSign(x) * (IF FSign(y) < 0 THEN -1 ELSE 1))
      [] IsInf(y)                   -> Num(0)
      [] y.n = 0                    -> IF x.n = 0 THEN NaN ELSE InfOf(Sign(x.n))
      [] OTHER                      -> Fin(x.n * y.d, x.d * y.n)

\* x < y; false when either is NaN
FLess(x, y) ==
    CASE IsNaN(x) \/ IsNaN(y)       -> FALSE
      [] x.k = "ninf"               -> y.k # "ninf"
      [] y.k = "pinf"               -> x.k # "pinf"
      [] x.k = "pinf" \/ y.k = "ninf" -> FALSE
      [] OTHER                      -> x.n * y.d < y.n * x.d

FLeq(x, y) == ~IsNaN(x) /\ ~IsNaN(y) /\ ~FLess(y, x)

(***************************************************************************)
(* Dates.  A timestamp is an integer 3*m + p: m counts months, p = 0 is    *)
(* the first day of month m, p = 1 a day inside it, p = 2 its last day.    *)
(* The order of the integers is the order of the timestamps.  NaT is the   *)
(* missing timestamp.                                                      *)
(***************************************************************************)
NaT == 0

MonthOf(d) == d \div 3

IsMonthEnd(d) == d % 3 = 2

IsMonthStart(d) == d % 3 = 0

MonthEnd(m) == 3 * m + 2

\* the latest month end on or before d (pandas rolls `end` back onto the offset)
RollBack(d) == IF IsMonthEnd(d) THEN d ELSE MonthEnd(MonthOf(d) - 1)

\* a monthly range that ends at `end` itself, whatever its day of the month
date_range_ending_at(end, periods) ==
    [i \in 1..periods |-> end - 3 * (periods - i)]

\* pd.date_range(end=end, periods=periods, freq='M'): `periods` month ends
date_range(end, periods) ==
    [i \in 1..periods |-> RollBack(end) - 3 * (periods - i)]

\* Series.dt.strftime('%Y-%m-%d'): the text of a timestamp, as <<month, day>>
strftime(d) == <<MonthOf(d), d % 3>>

(***************************************************************************)
(* Sequence helpers standing for the pandas operations the code uses.      *)
(***************************************************************************)
\* date a sorts no later than date b; NaT sorts last (na_position='last')
DateBefore(a, b) == b = NaT \/ (a # NaT /\ a <= b)

RECURSIVE SortFrom(_, _)
SortFrom(rows, idxs) ==
    IF idxs = {} THEN {<<>>}
    ELSE LET mins == {i \in idxs : \A j \in idxs : DateBefore(rows[i].date, rows[j].date)}
         IN  UNION {{<<rows[i]>> \o t : t \in SortFrom(rows, idxs \ {i})} : i \in mins}

\* DataFrame.sort_values('date'): the default sort is not stable, so every
\* order of the rows that is ascending by date is a possible result (the
\* frame is evaluated once, then sorted)
sort_values(rows) == UNION {SortFrom(frame, DOMAIN frame) : frame \in {rows}}

\* a tail that keeps the first n rows instead of the last n
tail_keeps_head(s, n) == IF Len(s) <= n THEN s ELSE SubSeq(s, 1, n)

\* DataFrame.tail(n)
tail(s, n) == IF Len(s) <= n THEN s ELSE SubSeq(s, Len(s) - n + 1, Len(s))

\* DataFrame.dropna(subset=['risk_index'])
dropna_risk(s) == SelectSeq(s, LAMBDA r : ~IsNaN(r.risk_index))

\* DataFrame.dropna(subset=['date']) / county_ts[county_ts['date'].notna()]
dropna_date(s) == SelectSeq(s, LAMBDA r : r.date # NaT)

\* Series.min() of the dates of a non-empty series without NaT
MinDate(s) == CHOOSE d \in {s[i].date : i \in DOMAIN s} :
                  \A i \in DOMAIN s : d <= s[i].date

RECURSIVE merge_left(_, _)
\* left.merge(right, on='date', how='left'): for each left date, in order, one
\* row per right row of that date (in right order), or one row with a missing
\* value when no right row has that date
merge_left(dates, right) ==
    IF dates = <<>> THEN <<>>
    ELSE LET d    == Head(dates)
             hits == SelectSeq(right, LAMBDA r : r.date = d)
         IN  (IF hits = <<>> THEN <<[date |-> d, risk_index |-> NaN]>> ELSE hits)
             \o merge_left(Tail(dates), right)

\* Series.interpolate(method='linear', limit_direction='both'): a missing value
\* between two known ones lies on the line through them (by position); missing
\* values before the first or after the last known one take that known value
interpolate(v) ==
    LET known == {i \in DOMAIN v : ~IsNaN(v[i])}
        At(i) ==
            LET lo == {j \in known : j < i}
                hi == {j \in known : j > i}
                a  == CHOOSE j \in lo : \A k \in lo : k <= j
                b  == CHOOSE j \in hi : \A k \in hi : j <= k
            IN  IF i \in known THEN v[i]
                ELSE IF lo # {} /\ hi # {}
                     THEN FAdd(v[a], FMul(FSub(v[b], v[a]), Fin(i - a, b - a)))
                ELSE IF lo # {} THEN v[a]
                ELSE IF hi # {} THEN v[b]
                ELSE NaN
    IN  [i \in DOMAIN v |-> At(i)]

\* Series.ffill(): a missing value takes the last known value before it
ffill(v) ==
    [i \in DOMAIN v |->
        LET lo == {j \in DOMAIN v : j <= i /\ ~IsNaN(v[j])}
        IN  IF lo = {} THEN NaN ELSE v[CHOOSE j \in lo : \A k \in lo : k <= j]]

\* Series.bfill(): a missing value takes the first known value after it
bfill(v) ==
    [i \in DOMAIN v |->
        LET hi == {j \in DOMAIN v : j >= i /\ ~IsNaN(v[j])}
        IN  IF hi = {} THEN NaN ELSE v[CHOOSE j \in hi : \A k \in hi : j <= k]]

\* Series.fillna(x)
fillna(v, x) == [i \in DOMAIN v |-> IF IsNaN(v[i]) THEN x ELSE v[i]]

RECURSIVE FSum(_)
FSum(v) == IF v = <<>> THEN Num(0) ELSE FAdd(Head(v), FSum(Tail(v)))

\* Series.mean(): the mean of the non-missing values, NaN when there are none
mean(v) ==
    LET w == SelectSeq(v, LAMBDA x : ~IsNaN(x))
    IN  IF w = <<>> THEN NaN ELSE FDiv(FSum(w), Num(Len(w)))

Column(s) == [i \in DOMAIN s |-> s[i].risk_index]

WithColumn(s, v) == [i \in DOMAIN s |-> [date |-> s[i].date, risk_index |-> v[i]]]

(***************************************************************************)
(* models/forecasting.py: augment_time_series and                          *)
(* prepare_county_time_series.  Each yields the set of its possible        *)
(* results (one per order the unstable sorts may produce).                 *)
(***************************************************************************)
\* lines 45-56: interpolate, forward/backward fill, then the mean fallback;
\* each step takes the finished column of the step before it
fill_missing(sorted, known) ==
    LET original_mean == mean(known)
        filled == {IF \E i \in DOMAIN v1 : IsNaN(v1[i])
                   THEN fillna(v1, IF IsNaN(original_mean) THEN Num(0) ELSE original_mean)
                   ELSE v1
                   : v1 \in {bfill(f) : f \in {ffill(l) : l \in {interpolate(Column(sorted))}}}}
    IN  CHOOSE out \in {WithColumn(sorted, v2) : v2 \in filled} : TRUE

augment_time_series(ts, M) ==
    IF Len(ts) >= M THEN {ts}
    ELSE LET earliest_date == MinDate(ts)
             merged == merge_left(date_range(earliest_date, M), ts)
         IN  {fill_missing(sorted, Column(ts)) : sorted \in sort_values(merged)}

NoSeries == [ok |-> FALSE, rows |-> <<>>]

\* lines 92-94: dates become text; astype(float) leaves the floats as they are
serialize(ts) ==
    [ok |-> TRUE,
     rows |-> [i \in DOMAIN ts |-> [date |-> strftime(ts[i].date),
                                    risk_index |-> ts[i].risk_index]]]

\* finish_prepare without the truncation of lines 85-86
finish_prepare_no_truncation(augmented, M) ==
    IF Len(augmented) < M THEN NoSeries ELSE serialize(augmented)

\* lines 80-96, from the cleaned series on
finish_prepare(augmented, M) ==
    LET cut == IF Len(augmented) > M THEN tail(augmented, M) ELSE augmented
    IN  IF Len(cut) < M THEN NoSeries ELSE serialize(cut)

\* lines 63-75: sort, drop missing risk_index, drop missing dates
clean_series(cdata) ==
    {dropna_date(dropna_risk(sorted)) : sorted \in sort_values(cdata)}

\* every possible run of prepare_county_time_series: whether it called
\* augment_time_series, on what, what that returned, and its own result
prepare_county_time_series(cdata, M) ==
    UNION {
        IF Len(cleaned) = 0
        THEN {[called |-> FALSE, cleaned |-> cleaned, augmented |-> <<>>,
               result |-> NoSeries]}
        ELSE IF Len(cleaned) < M
        THEN {[called |-> TRUE, cleaned |-> cleaned, augmented |-> a,
               result |-> finish_prepare(a, M)] : a \in augment_time_series(cleaned, M)}
        ELSE {[called |-> FALSE, cleaned |-> cleaned, augmented |-> <<>>,
               result |-> finish_prepare(cleaned, M)]}
        : cleaned \in clean_series(cdata)}

(***************************************************************************)
(* Specification SpecAug: prepare_county_time_series on one county's rows. *)
(***************************************************************************)
MaxRows == 3      \* most rows of one county
MaxM == 3         \* largest required minimum

\* observed months lie late enough for MaxM month ends to precede them
ObservedMonths == {MaxM + 1, MaxM + 2}

\* first and last days of the observed months, and the missing timestamp
ObservedDates == {3 * m + p : m \in ObservedMonths, p \in {0, 2}} \cup {NaT}

RiskValues == {NaN, Fin(1, 5), Fin(1, 2)}

AugRows == [date : ObservedDates, risk_index : RiskValues]

AugInit ==
    /\ county_data \in UNION {[1..n -> AugRows] : n \in 1..MaxRows}
    /\ min_points \in 1..MaxM
    /\ aug_pc = "start"
    /\ aug_called = FALSE
    /\ aug_in = <<>>
    /\ aug_out = <<>>
    /\ county_ts = NoSeries
    /\ OthersIdle("aug")

PrepareCountyTimeSeries ==
    /\ aug_pc = "start"
    /\ \E run \in prepare_county_time_series(county_data, min_points) :
          /\ aug_called' = run.called
          /\ aug_in' = run.cleaned
          /\ aug_out' = run.augmented
          /\ county_ts' = run.result
    /\ aug_pc' = "done"
    /\ UNCHANGED <<county_data, min_points>>
    /\ OthersUnchanged("aug")

AugNext == PrepareCountyTimeSeries

SpecAug == AugInit /\ [][AugNext]_vars

(***************************************************************************)
(* Claims about the series augmenter, checked under SpecAug.               *)
(***************************************************************************)
\* a row with a risk_index and a valid date
ValidRow(r) == r.date # NaT /\ ~IsNaN(r.risk_index)

HasValidRow(cdata) == \E i \in DOMAIN cdata : ValidRow(cdata[i])

NoMissing(rows) == \A i \in DOMAIN rows : ~IsNaN(rows[i].risk_index)

\* C1: for every county series with at least one row that has a risk_index
\* and a valid date, and every M >= 1, prepare_county_time_series returns a
\* series of exactly M points none of which is missing, whether the input is
\* shorter than, as long as or longer than M, and also when dates repeat.
C1_PreparedSeriesHasMPointsNoNaN ==
    (aug_pc = "done" /\ HasValidRow(county_data)) =>
        /\ county_ts.ok
        /\ Len(county_ts.rows) = min_points
        /\ NoMissing(county_ts.rows)

\* C1 witness: a short series with a repeated date that augment_time_series
\* returned longer than M, and prepare_county_time_series cut back to M.
C1_Witness ==
    /\ aug_pc = "done"
    /\ aug_called
    /\ Len(aug_out) > min_points
    /\ county_ts.ok
    /\ Len(county_ts.rows) = min_points

\* C2 (as claimed): for every observed series of length n, 1 <= n < M,
\* augment_time_series returns exactly M points, none missing, and every
\* returned point at a date that had an observed value carries a value
\* observed at that date.
C2_AugmentReturnsExactlyM ==
    (aug_pc = "done" /\ aug_called) =>
        /\ Len(aug_out) = min_points
        /\ NoMissing(aug_out)
        /\ \A i \in DOMAIN aug_out :
              (\E j \in DOMAIN aug_in : aug_in[j].date = aug_out[i].date) =>
              (\E j \in DOMAIN aug_in : aug_in[j] = aug_out[i])

TextBefore(a, b) == a[1] < b[1] \/ (a[1] = b[1] /\ a[2] <= b[2])

\* C3: when the series left after dropping missing values has at least M
\* points, prepare_county_time_series returns exactly the M points with the
\* latest dates, in ascending date order, values unchanged, none synthetic:
\* the returned rows are M distinct valid input rows, and no valid input row
\* left out is later than a returned one.
C3_LongSeriesKeepsLatestM ==
    (aug_pc = "done" /\ Len(aug_in) >= min_points) =>
        /\ county_ts.ok
        /\ ~aug_called
        /\ Len(county_ts.rows) = min_points
        /\ \A i, j \in DOMAIN county_ts.rows :
              i < j => TextBefore(county_ts.rows[i].date, county_ts.rows[j].date)
        /\ \E f \in [DOMAIN county_ts.rows -> DOMAIN county_data] :
              /\ \A i, j \in DOMAIN f : i # j => f[i] # f[j]
              /\ \A i \in DOMAIN f :
                    /\ ValidRow(county_data[f[i]])
                    /\ county_ts.rows[i].date = strftime(county_data[f[i]].date)
                    /\ county_ts.rows[i].risk_index = county_data[f[i]].risk_index
              /\ \A k \in DOMAIN county_data :
                    (ValidRow(county_data[k]) /\ \A i \in DOMAIN f : f[i] # k) =>
                    \A i \in DOMAIN f : county_data[k].date <= county_data[f[i]].date

\* C3 witness: a cleaned series longer than M was cut to its last M points.
C3_Witness ==
    /\ aug_pc = "done"
    /\ Len(aug_in) > min_points
    /\ county_ts.ok
    /\ county_ts.rows[1].date # strftime(aug_in[1].date)

DatesOf(rows) == {rows[i].date : i \in DOMAIN rows}

\* C22 (as claimed): for every observed series shorter than M,
\* augment_time_series builds a monthly range of exactly M dates whose last
\* date is the earliest observed date, and joins the known values onto it by
\* date, so the earliest observed point is a point of the augmented series;
\* in particular when the observed dates are first days of a month.
C22_RangeEndsAtEarliestObserved ==
    (aug_pc = "done" /\ aug_called) =>
        /\ Cardinality(DatesOf(aug_out)) = min_points
        /\ \A d \in DatesOf(aug_out) : d <= MinDate(aug_in)
        /\ \E i \in DOMAIN aug_out : \E j \in DOMAIN aug_in :
              /\ aug_in[j].date = MinDate(aug_in)
              /\ aug_out[i] = aug_in[j]

NoMonthEnd(rows) == \A i \in DOMAIN rows : ~IsMonthEnd(rows[i].date)

Constant(rows, x) == \A i \in DOMAIN rows : rows[i].risk_index = x

\* the rows of the county with a date, in an order sorted by date, whether or
\* not their risk_index is missing
DatedSeries(cdata) == {dropna_date(sorted) : sorted \in sort_values(cdata)}

C23_WitnessUndefinedMean ==
    /\ aug_pc = "done"
    /\ min_points = 2
    /\ Len(county_data) = 1
    /\ IsMonthStart(county_data[1].date) /\ county_data[1].date # NaT
    /\ IsNaN(county_data[1].risk_index)
    /\ \A out \in augment_time_series(county_data, min_points) : Constant(out, Num(0))


(***************************************************************************)
(* Strings.  A string is a sequence of character codes (ASCII).            *)
(***************************************************************************)
IsUpper(c) == c \in 65..90
IsLower(c) == c \in 97..122
IsAlpha(c) == IsUpper(c) \/ IsLower(c)
IsDigit(c) == c \in 48..57
\* \s, str.isspace: space, tab, newline, carriage return
IsSpace(c) == c \in {32, 9, 10, 13}

LowerChar(c) == IF IsUpper(c) THEN c + 32 ELSE c
UpperChar(c) == IF IsLower(c) THEN c - 32 ELSE c

\* str.lower(), str.upper()
lower(s) == [i \in DOMAIN s |-> LowerChar(s[i])]
upper(s) == [i \in DOMAIN s |-> UpperChar(s[i])]

\* str.title(): a letter is upper-cased when no letter precedes it, else lower-cased
title(s) ==
    [i \in DOMAIN s |->
        IF IsAlpha(s[i])
        THEN IF i = 1 \/ ~IsAlpha(s[i - 1]) THEN UpperChar(s[i]) ELSE LowerChar(s[i])
        ELSE s[i]]

RECURSIVE lstrip(_)
lstrip(s) == IF s # <<>> /\ IsSpace(Head(s)) THEN lstrip(Tail(s)) ELSE s

RECURSIVE rstrip(_)
rstrip(s) ==
    IF s # <<>> /\ IsSpace(s[Len(s)]) THEN rstrip(SubSeq(s, 1, Len(s) - 1)) ELSE s

\* str.strip()
strip(s) == lstrip(rstrip(s))

\* t occurs in s at position i
OccursAt(s, t, i) == i + Len(t) - 1 <= Len(s) /\ SubSeq(s, i, i + Len(t) - 1) = t

\* `t in s`
Contains(s, t) == \E i \in 1..(Len(s) + 1) : OccursAt(s, t, i)

RECURSIVE replace_all(_, _)
\* str.replace(t, ''): every occurrence of the non-empty t removed, left to right
replace_all(s, t) ==
    IF s = <<>> THEN <<>>
    ELSE IF OccursAt(s, t, 1) THEN replace_all(SubSeq(s, Len(t) + 1, Len(s)), t)
    ELSE <<Head(s)>> \o replace_all(Tail(s), t)

RECURSIVE WordLen(_)
\* the length of the run of non-whitespace characters s starts with
WordLen(s) == IF s = <<>> \/ IsSpace(Head(s)) THEN 0 ELSE 1 + WordLen(Tail(s))

RECURSIVE collapse_ws(_)
\* ' '.join(s.split()): runs of whitespace become one space, none at the ends
collapse_ws(s) ==
    LET t == lstrip(s)
    IN  IF t = <<>> THEN <<>>
        ELSE LET n    == WordLen(t)
                 rest == collapse_ws(SubSeq(t, n + 1, Len(t)))
             IN  IF rest = <<>> THEN SubSeq(t, 1, n)
                 ELSE SubSeq(t, 1, n) \o <<32>> \o rest

RECURSIVE BeforeChar(_, _)
\* s.split(c)[0]: the part of s before the first c
BeforeChar(s, c) ==
    IF s = <<>> \/ Head(s) = c THEN <<>> ELSE <<Head(s)>> \o BeforeChar(Tail(s), c)

Str_county == <<99, 111, 117, 110, 116, 121>>   \* "county"
Str_SpCounty == <<32, 67, 111, 117, 110, 116, 121>>   \* " County"
Str_Spcounty == <<32, 99, 111, 117, 110, 116, 121>>   \* " county"
Str_CommaSp == <<44, 32>>   \* ", "
Str_autauga == <<97, 117, 116, 97, 117, 103, 97>>   \* "autauga"
Str_st_clair == <<115, 116, 46, 32, 99, 108, 97, 105, 114>>   \* "st. clair"
Str_AL == <<65, 76>>   \* "AL"
Str_IL == <<73, 76>>   \* "IL"

(***************************************************************************)
(* utils/helpers.py: normalize_county_name.                                *)
(***************************************************************************)
\* re.sub(r'\s+County\s*$', '', s, flags=re.IGNORECASE)
sub_county_suffix(s) ==
    LET t == rstrip(s)
        n == Len(t)
    IN  IF n >= 7 /\ lower(SubSeq(t, n - 5, n)) = Str_county /\ IsSpace(t[n - 6])
        THEN rstrip(SubSeq(t, 1, n - 6))
        ELSE s

\* re.sub(r',\s*[A-Z]{2}\s*$', '', s)
sub_state_suffix(s) ==
    LET t == rstrip(s)
        n == Len(t)
        u == rstrip(SubSeq(t, 1, n - 2))
    IN  IF n >= 3 /\ IsUpper(t[n]) /\ IsUpper(t[n - 1]) /\ u # <<>> /\ u[Len(u)] = 44
        THEN SubSeq(u, 1, Len(u) - 1)
        ELSE s

normalize_county_name(county_name) ==
    IF county_name = <<>> THEN None
    ELSE LET county_str ==
                 title(collapse_ws(sub_state_suffix(sub_county_suffix(strip(county_name)))))
         IN  IF county_str # <<>> THEN Some(county_str) ELSE None

(***************************************************************************)
(* models/predictor.py: _normalize_county_name.                            *)
(***************************************************************************)
predictor_normalize_county_name(county_name) ==
    LET name1 == strip(replace_all(replace_all(strip(county_name), Str_SpCounty),
                                   Str_Spcounty))
        name2 == IF Contains(name1, Str_CommaSp) THEN strip(BeforeChar(name1, 44))
                 ELSE name1
    IN  Some(lower(name2))

(***************************************************************************)
(* Specification SpecNorm: a normalizer applied to two raw county strings  *)
(* that differ only by an administrative suffix word, by letter case or by *)
(* punctuation.                                                            *)
(***************************************************************************)
\* county names as a source file may spell them
BaseNames == {<<65, 117, 116, 97, 117, 103, 97>>,     \* "Autauga"
              <<83, 116, 46, 32, 67, 108, 97, 105, 114>>,     \* "St. Clair"
              <<79, 39, 66, 114, 105, 101, 110>>}     \* "O'Brien"

\* administrative suffix words (none, and the nine of the spec)
SuffixWords == {<<>>,
                <<67, 111, 117, 110, 116, 121>>,     \* "County"
                <<80, 97, 114, 105, 115, 104>>,     \* "Parish"
                <<67, 105, 116, 121>>,     \* "City"
                <<66, 111, 114, 111, 117, 103, 104>>,     \* "Borough"
                <<77, 117, 110, 105, 99, 105, 112, 97, 108, 105, 116, 121>>,     \* "Municipality"
                <<80, 108, 97, 110, 110, 105, 110, 103, 32, 82, 101, 103, 105, 111, 110>>,     \* "Planning Region"
                <<67, 101, 110, 115, 117, 115, 32, 65, 114, 101, 97>>,     \* "Census Area"
                <<84, 111, 119, 110>>,     \* "Town"
                <<84, 111, 119, 110, 115, 104, 105, 112>>}     \* "Township"

CaseForms == {"asis", "upper", "lower"}

IsPunct(c) == ~IsAlpha(c) /\ ~IsDigit(c) /\ ~IsSpace(c)

\* s without its punctuation characters
WithoutPunct(s) == SelectSeq(s, LAMBDA c : ~IsPunct(c))

\* the raw string: a base name, with or without its punctuation, followed by
\* a suffix word, in one of the case forms
RawCounty(base, keepPunct, suffix, form) ==
    LET b == IF keepPunct THEN base ELSE WithoutPunct(base)
        w == IF suffix = <<>> THEN b ELSE b \o <<32>> \o suffix
    IN  CASE form = "upper" -> upper(w)
          [] form = "lower" -> lower(w)
          [] OTHER          -> w

NormFns == {"helpers", "predictor"}

ApplyNormalizer(fn, raw) ==
    CASE fn = "helpers"   -> normalize_county_name(raw)
      [] fn = "predictor" -> predictor_normalize_county_name(raw)

NormInit ==
    /\ norm_fn \in NormFns
    /\ \E base \in BaseNames :
          /\ raw_a \in {RawCounty(base, kp, sf, cf) :
                            kp \in BOOLEAN, sf \in SuffixWords, cf \in CaseForms}
          /\ raw_b \in {RawCounty(base, kp, sf, cf) :
                            kp \in BOOLEAN, sf \in SuffixWords, cf \in CaseForms}
    /\ norm_pc = "start"
    /\ out_a = None
    /\ out_b = None
    /\ OthersIdle("norm")

NormalizeBoth ==
    /\ norm_pc = "start"
    /\ out_a' = ApplyNormalizer(norm_fn, raw_a)
    /\ out_b' = ApplyNormalizer(norm_fn, raw_b)
    /\ norm_pc' = "done"
    /\ UNCHANGED <<norm_fn, raw_a, raw_b>>
    /\ OthersUnchanged("norm")

NormNext == NormalizeBoth

SpecNorm == NormInit /\ [][NormNext]_vars

\* C10 (as claimed): for two raw county strings that differ only by an
\* administrative suffix word, by letter case or by punctuation,
\* normalize_county_name of utils/helpers.py returns the same string.
C10_SameKeyForSuffixCasePunctuation ==
    (norm_pc = "done" /\ norm_fn = "helpers") => out_a = out_b


(***************************************************************************)
(* utils/data_processing.py: calculate_risk_index.  A row of the merged    *)
(* table carries the four source columns; the result adds the derived      *)
(* columns.                                                                *)
(***************************************************************************)
RECURSIVE InsertSorted(_, _)
InsertSorted(x, s) ==
    IF s = <<>> THEN <<x>>
    ELSE IF FLess(Head(s), x) THEN <<Head(s)>> \o InsertSorted(x, Tail(s))
    ELSE <<x>> \o s

RECURSIVE SortFloats(_)
SortFloats(v) == IF v = <<>> THEN <<>> ELSE InsertSorted(Head(v), SortFloats(Tail(v)))

\* Series.median(): of the non-missing values; NaN when there are none
median(v) ==
    LET w == SortFloats(SelectSeq(v, LAMBDA x : ~IsNaN(x)))
        n == Len(w)
    IN  IF n = 0 THEN NaN
        ELSE IF n % 2 = 1 THEN w[(n + 1) \div 2]
        ELSE FDiv(FAdd(w[n \div 2], w[n \div 2 + 1]), Num(2))

\* Series.min(), Series.max(): of the non-missing values; NaN when there are none
col_min(v) ==
    LET w == SortFloats(SelectSeq(v, LAMBDA x : ~IsNaN(x)))
    IN  IF w = <<>> THEN NaN ELSE w[1]

col_max(v) ==
    LET w == SortFloats(SelectSeq(v, LAMBDA x : ~IsNaN(x)))
    IN  IF w = <<>> THEN NaN ELSE w[Len(w)]

\* the column minimum in place of the median, 0 when it is undefined
min_or_zero(v) == IF IsNaN(col_min(v)) THEN Num(0) ELSE col_min(v)

\* lines 128-131, 135-138: the column median, 0 when it is undefined
median_or_zero(v) == IF IsNaN(median(v)) THEN Num(0) ELSE median(v)

\* a sanitization that leaves the value as it is
sanitize_nothing(x) == x

\* .replace([np.inf, -np.inf], 0).fillna(0) on one value
sanitize(x) == IF IsInf(x) \/ IsNaN(x) THEN Num(0) ELSE x

\* RISK_WEIGHTS (models/constants.py)
W_employment_ratio == Fin(4, 10)
W_unemployment_rate == Fin(3, 10)
W_snap_rate == Fin(2, 10)
W_cost_index == Fin(1, 10)

POPULATION_ESTIMATE_MULTIPLIER == 50

\* a cost index that is 1.0 for every row when the cost range is zero or undefined
cost_index_norm_one_when_flat(total_cost) ==
    LET cost_min   == col_min(total_cost)
        cost_max   == col_max(total_cost)
        cost_range == FSub(cost_max, cost_min)
    IN  [i \in DOMAIN total_cost |->
            IF cost_range = Num(0) \/ IsNaN(cost_range) THEN Num(1)
            ELSE FDiv(FSub(total_cost[i], cost_min), cost_range)]

\* lines 149-156: the cost column scaled to its range, 0.0 when the range is
\* zero or undefined
cost_index_norm(total_cost) ==
    LET cost_min   == col_min(total_cost)
        cost_max   == col_max(total_cost)
        cost_range == FSub(cost_max, cost_min)
    IN  [i \in DOMAIN total_cost |->
            IF cost_range = Num(0) \/ IsNaN(cost_range) THEN Num(0)
            ELSE FDiv(FSub(total_cost[i], cost_min), cost_range)]

calculate_risk_index(t) ==
    LET federal_employment == fillna([i \in DOMAIN t |-> t[i].federal_employment], Num(0))
        unemployment_raw   == [i \in DOMAIN t |-> t[i].unemployment_rate]
        unemployment_rate  == fillna(unemployment_raw, median_or_zero(unemployment_raw))
        snap_households    == fillna([i \in DOMAIN t |-> t[i].snap_households], Num(0))
        cost_raw           == [i \in DOMAIN t |-> t[i].total_cost]
        total_cost         == fillna(cost_raw, median_or_zero(cost_raw))
        population ==
            fillna([i \in DOMAIN t |->
                       FMul(federal_employment[i], Num(POPULATION_ESTIMATE_MULTIPLIER))],
                   Num(0))
        cin == cost_index_norm(total_cost)
        Row(i) ==
            LET employment_ratio ==
                    sanitize(FDiv(federal_employment[i], FAdd(population[i], Num(1))))
                snap_rate ==
                    sanitize(FDiv(snap_households[i], FAdd(population[i], Num(1))))
                unemployment_rate_norm == sanitize(FDiv(unemployment_rate[i], Num(100)))
                cost_index == sanitize(cin[i])
                risk_index ==
                    FAdd(FAdd(FAdd(FMul(W_employment_ratio, employment_ratio),
                                   FMul(W_unemployment_rate, unemployment_rate_norm)),
                              FMul(W_snap_rate, snap_rate)),
                         FMul(W_cost_index, cost_index))
            IN  [federal_employment     |-> federal_employment[i],
                 unemployment_rate      |-> unemployment_rate[i],
                 snap_households        |-> snap_households[i],
                 total_cost             |-> total_cost[i],
                 population             |-> population[i],
                 employment_ratio       |-> employment_ratio,
                 snap_rate              |-> snap_rate,
                 unemployment_rate_norm |-> unemployment_rate_norm,
                 cost_index_norm        |-> cost_index,
                 risk_index             |-> sanitize(risk_index)]
    IN  [i \in DOMAIN t |-> Row(i)]

(***************************************************************************)
(* Specification SpecRisk: calculate_risk_index on a merged table whose    *)
(* source values may be missing, zero, negative or infinite.               *)
(***************************************************************************)
MaxRiskRows == 2      \* most rows of the merged table

\* -1/50 makes the estimated population + 1 zero
FedValues == {NaN, Fin(-1, 50), Num(2)}
UnempValues == {NaN, Num(5)}
SnapValues == {NaN, Num(3)}
CostValues == {NaN, Num(10), Num(30), PInf}

MergedRows == [federal_employment : FedValues, unemployment_rate : UnempValues,
               snap_households : SnapValues, total_cost : CostValues]

RiskInit ==
    /\ merged_ts \in UNION {[1..n -> MergedRows] : n \in 1..MaxRiskRows}
    /\ risk_pc = "start"
    /\ risk_out = <<>>
    /\ OthersIdle("risk")

CalculateRiskIndex ==
    /\ risk_pc = "start"
    /\ risk_out' = calculate_risk_index(merged_ts)
    /\ risk_pc' = "done"
    /\ UNCHANGED merged_ts
    /\ OthersUnchanged("risk")

RiskNext == CalculateRiskIndex

SpecRisk == RiskInit /\ [][RiskNext]_vars

\* C5: every row returned by calculate_risk_index has a finite risk_index
\* (never NaN, +Infinity or -Infinity), whatever is missing, zero, negative
\* or extreme in the four source columns.
C5_RiskIndexFinite ==
    risk_pc = "done" =>
        /\ Len(risk_out) = Len(merged_ts)
        /\ \A i \in DOMAIN risk_out : IsFinite(risk_out[i].risk_index)

\* C5 witness: a returned table with a row whose population estimate + 1 is
\* zero (the ratios divide by zero) and a row with an infinite cost.
C5_Witness ==
    /\ risk_pc = "done"
    /\ \E i \in DOMAIN merged_ts : merged_ts[i].federal_employment = Fin(-1, 50)
    /\ \E i \in DOMAIN merged_ts : merged_ts[i].total_cost = PInf

AllMissing(r) ==
    /\ IsNaN(r.federal_employment)
    /\ IsNaN(r.unemployment_rate)
    /\ IsNaN(r.snap_households)
    /\ IsNaN(r.total_cost)

\* C6: when every row of the merged table has all four source values
\* missing, calculate_risk_index sets risk_index to exactly 0 on every row.
C6_AllMissingGivesZero ==
    (risk_pc = "done" /\ \A i \in DOMAIN merged_ts : AllMissing(merged_ts[i])) =>
        \A i \in DOMAIN risk_out : risk_out[i].risk_index = Num(0)

\* C6 witness: a returned table of several rows, all of them all-missing,
\* with medians defaulted to 0, a zero cost range and zero ratios.
C6_Witness ==
    /\ risk_pc = "done"
    /\ Len(merged_ts) > 1
    /\ \A i \in DOMAIN merged_ts : AllMissing(merged_ts[i])
    /\ \A i \in DOMAIN risk_out :
          /\ risk_out[i].unemployment_rate = Num(0)
          /\ risk_out[i].total_cost = Num(0)
          /\ risk_out[i].cost_index_norm = Num(0)
          /\ risk_out[i].employment_ratio = Num(0)
          /\ risk_out[i].snap_rate = Num(0)

(***************************************************************************)
(* Specification SpecFill: calculate_risk_index on merged tables of up to  *)
(* MaxFillRows rows whose columns hold several different known values, so  *)
(* that a column median differs from its minimum, maximum and first value. *)
(***************************************************************************)
MaxFillRows == 3      \* most rows of the merged table

FillRows ==
    {[federal_employment |-> f[1], snap_households |-> f[2],
      unemployment_rate |-> u, total_cost |-> c] :
        f \in {<<NaN, NaN>>, <<Num(2), Num(3)>>},
        u \in {NaN, Num(5), Num(7)},
        c \in {NaN, Num(10), Num(30)}}

FillInit ==
    /\ merged_ts \in UNION {[1..n -> FillRows] : n \in 1..MaxFillRows}
    /\ risk_pc = "start"
    /\ risk_out = <<>>
    /\ OthersIdle("risk")

SpecFill == FillInit /\ [][RiskNext]_vars

\* what a value becomes: itself when it is not missing, else the default
Filled(x, default) == IF IsNaN(x) THEN default ELSE x

\* the median of a column of the merged table, 0 when the whole column is
\* missing
ColumnDefault(column) ==
    LET m == median([i \in DOMAIN merged_ts |-> merged_ts[i][column]])
    IN  IF IsNaN(m) THEN Num(0) ELSE m

\* C25: in calculate_risk_index a missing value is replaced before any
\* feature is derived: federal_employment and snap_households by 0,
\* unemployment_rate and total_cost by the median of the column over the
\* merged table, or by 0 when the whole column is missing; no value that is
\* not missing is changed.
C25_MissingValuesFilled ==
    risk_pc = "done" =>
        /\ Len(risk_out) = Len(merged_ts)
        /\ \A i \in DOMAIN risk_out :
              /\ risk_out[i].federal_employment
                     = Filled(merged_ts[i].federal_employment, Num(0))
              /\ risk_out[i].snap_households
                     = Filled(merged_ts[i].snap_households, Num(0))
              /\ risk_out[i].unemployment_rate
                     = Filled(merged_ts[i].unemployment_rate,
                              ColumnDefault("unemployment_rate"))
              /\ risk_out[i].total_cost
                     = Filled(merged_ts[i].total_cost, ColumnDefault("total_cost"))
              /\ risk_out[i].population
                     = FMul(Filled(merged_ts[i].federal_employment, Num(0)),
                            Num(POPULATION_ESTIMATE_MULTIPLIER))
              /\ risk_out[i].unemployment_rate_norm
                     = FDiv(Filled(merged_ts[i].unemployment_rate,
                                   ColumnDefault("unemployment_rate")), Num(100))

\* C25 witness: a missing unemployment rate beside the known rates 5 and 7
\* became their median 6; the cost column, wholly missing, became 0; a missing
\* employment and SNAP count became 0.
C25_Witness ==
    /\ risk_pc = "done"
    /\ Len(merged_ts) = 3
    /\ AllMissing(merged_ts[1])
    /\ merged_ts[2].unemployment_rate = Num(5)
    /\ merged_ts[3].unemployment_rate = Num(7)
    /\ \A i \in DOMAIN merged_ts : IsNaN(merged_ts[i].total_cost)
    /\ risk_out[1].unemployment_rate = Num(6)
    /\ risk_out[1].total_cost = Num(0)
    /\ risk_out[1].federal_employment = Num(0)
    /\ risk_out[1].snap_households = Num(0)


(***************************************************************************)
(* utils/geocode.py: _normalize_county_name.                               *)
(***************************************************************************)
\* \w for ASCII text
IsWordChar(c) == IsAlpha(c) \/ IsDigit(c) \/ c = 95

\* the alternatives of the suffix pattern, in the order the pattern lists them
GeoSuffixWords == <<<<99, 111, 117, 110, 116, 121>>, <<112, 97, 114, 105, 115, 104>>, <<99, 105, 116, 121>>, <<98, 111, 114, 111, 117, 103, 104>>, <<109, 117, 110, 105, 99, 105, 112, 97, 108, 105, 116, 121>>,
                    <<112, 108, 97, 110, 110, 105, 110, 103, 32, 114, 101, 103, 105, 111, 110>>, <<99, 101, 110, 115, 117, 115, 32, 97, 114, 101, 97>>, <<116, 111, 119, 110>>, <<116, 111, 119, 110, 115, 104, 105, 112>>>>

\* \b(w)\b matches in s at position i (w begins and ends with a word character)
WordMatchAt(s, w, i) ==
    /\ OccursAt(s, w, i)
    /\ i = 1 \/ ~IsWordChar(s[i - 1])
    /\ i + Len(w) > Len(s) \/ ~IsWordChar(s[i + Len(w)])

\* the length of the match of the suffix pattern at position i (0: no match);
\* the first alternative that matches wins
SuffixMatchLen(s, i) ==
    LET hits == {k \in DOMAIN GeoSuffixWords : WordMatchAt(s, GeoSuffixWords[k], i)}
    IN  IF hits = {} THEN 0
        ELSE Len(GeoSuffixWords[CHOOSE k \in hits : \A j \in hits : k <= j])

RECURSIVE sub_suffix_words(_, _)
\* re.sub(r"\b(county|parish|...|township)\b", '', s), scanning from position i
sub_suffix_words(s, i) ==
    IF i > Len(s) THEN <<>>
    ELSE LET n == SuffixMatchLen(s, i)
         IN  IF n > 0 THEN sub_suffix_words(s, i + n)
             ELSE <<s[i]>> \o sub_suffix_words(s, i + 1)

\* re.sub(r'[^a-z0-9\s]', '', s)
sub_punctuation(s) == SelectSeq(s, LAMBDA c : IsLower(c) \/ IsDigit(c) \/ IsSpace(c))

\* geocode.py 66-81 for a string argument
geocode_normalize_county_name(name) ==
    collapse_ws(sub_punctuation(sub_suffix_words(strip(lower(name)), 1)))

(***************************************************************************)
(* Specification SpecIdem: a normalizer applied to a raw county string and *)
(* then to its own result.                                                 *)
(***************************************************************************)
Str_County_AL == <<32, 67, 111, 117, 110, 116, 121, 44, 32, 65, 76>>
Str_Census__Area == <<32, 67, 101, 110, 115, 117, 115, 32, 32, 65, 114, 101, 97>>

\* raw strings: those of SpecNorm, and each base name followed by
\* " County, AL" or by " Census  Area" (two spaces)
IdemRaws ==
    UNION {{RawCounty(base, kp, sf, cf) :
               kp \in BOOLEAN, sf \in SuffixWords, cf \in CaseForms} \cup
           {base \o Str_County_AL, base \o Str_Census__Area} : base \in BaseNames}

IdemFns == {"helpers", "geocode"}

ApplyIdem(fn, raw) ==
    CASE fn = "helpers" -> normalize_county_name(raw)
      [] OTHER          -> Some(geocode_normalize_county_name(raw))

IdemInit ==
    /\ idem_fn \in IdemFns
    /\ idem_raw \in IdemRaws
    /\ idem_pc = "start"
    /\ idem_once = None
    /\ idem_twice = None
    /\ OthersIdle("idem")

NormalizeOnce ==
    /\ idem_pc = "start"
    /\ idem_once' = ApplyIdem(idem_fn, idem_raw)
    /\ idem_pc' = "once"
    /\ UNCHANGED <<idem_fn, idem_raw, idem_twice>>
    /\ OthersUnchanged("idem")

NormalizeAgain ==
    /\ idem_pc = "once"
    /\ idem_once.some
    /\ idem_twice' = ApplyIdem(idem_fn, idem_once.s)
    /\ idem_pc' = "twice"
    /\ UNCHANGED <<idem_fn, idem_raw, idem_once>>
    /\ OthersUnchanged("idem")

IdemNext == NormalizeOnce \/ NormalizeAgain

SpecIdem == IdemInit /\ [][IdemNext]_vars

\* C11 (as claimed): for every raw string whose normalization is not null,
\* normalizing the result again returns it unchanged, for
\* normalize_county_name of utils/helpers.py and for _normalize_county_name
\* of utils/geocode.py.
C11_NormalizationIdempotent ==
    idem_pc = "twice" => idem_twice = idem_once


(***************************************************************************)
(* utils/helpers.py: parse_period_to_date.  A parsed date is an optional   *)
(* timestamp; the timestamp of a calendar day is 3 * (12 * year + month -  *)
(* 1) + p with p as above.                                                 *)
(***************************************************************************)
NoDate == [some |-> FALSE, date |-> NaT]

IsLeap(year) == (year % 4 = 0 /\ year % 100 # 0) \/ year % 400 = 0

DaysInMonth(year, month) ==
    IF month = 2 THEN (IF IsLeap(year) THEN 29 ELSE 28)
    ELSE IF month \in {4, 6, 9, 11} THEN 30 ELSE 31

\* pd.Timestamp(year=, month=, day=): the timestamp, or no date where pandas
\* raises (a day that does not exist, a date outside 1677-09-22..2262-04-11)
Timestamp(year, month, day) ==
    IF /\ month \in 1..12
       /\ day \in 1..DaysInMonth(year, month)
       /\ 12 * 1677 + 9 <= 12 * year + month - 1
       /\ 12 * year + month - 1 <= 12 * 2262 + 3
    THEN [some |-> TRUE,
          date |-> 3 * (12 * year + month - 1)
                   + (IF day = 1 THEN 0 ELSE IF day = DaysInMonth(year, month) THEN 2 ELSE 1)]
    ELSE NoDate

RECURSIVE int(_)
\* int() of a string of digits
int(digits) ==
    IF digits = <<>> THEN 0
    ELSE 10 * int(SubSeq(digits, 1, Len(digits) - 1)) + (digits[Len(digits)] - 48)

RECURSIVE DigitRun(_)
\* the number of digits s starts with
DigitRun(s) == IF s = <<>> \/ ~IsDigit(Head(s)) THEN 0 ELSE 1 + DigitRun(Tail(s))

AllAlpha(s) == \A i \in DOMAIN s : IsAlpha(s[i])

month_names == <<<<106, 97, 110>>, <<102, 101, 98>>, <<109, 97, 114>>, <<97, 112, 114>>, <<109, 97, 121>>, <<106, 117, 110>>,
                 <<106, 117, 108>>, <<97, 117, 103>>, <<115, 101, 112>>, <<111, 99, 116>>, <<110, 111, 118>>, <<100, 101, 99>>>>

\* month_map.get(month_str.lower()): 0 stands for None
month_map(month_str) ==
    LET hits == {k \in DOMAIN month_names : month_names[k] = lower(month_str)}
    IN  IF hits = {} THEN 0 ELSE CHOOSE k \in hits : TRUE

\* two-digit years are read as written (the mutation of year_of)
year_of_as_written(year_str) == int(year_str)

\* a two-digit year is read as 2000 + YY
year_of(year_str) == IF Len(year_str) = 2 THEN 2000 + int(year_str) ELSE int(year_str)

\* lines 105-128: re.match(r'(\d{2,4})-([A-Za-z]{3})'), "24-Jul" or "2024-Jul"
parse_yy_mon(s) ==
    LET n == DigitRun(s)
    IN  IF /\ n \in 2..4
           /\ Len(s) >= n + 4
           /\ s[n + 1] = 45
           /\ AllAlpha(SubSeq(s, n + 2, n + 4))
           /\ month_map(SubSeq(s, n + 2, n + 4)) # 0
        THEN Timestamp(year_of(SubSeq(s, 1, n)), month_map(SubSeq(s, n + 2, n + 4)), 1)
        ELSE NoDate

\* lines 130-139: re.match(r'(\d{4})-(\d{1,2})'), "2024-07"
parse_yyyy_mm(s) ==
    IF DigitRun(s) >= 4 /\ Len(s) >= 6 /\ s[5] = 45 /\ IsDigit(s[6])
    THEN LET m == IF Len(s) >= 7 /\ IsDigit(s[7]) THEN SubSeq(s, 6, 7) ELSE SubSeq(s, 6, 6)
         IN  IF DigitRun(s) = 4 /\ int(m) \in 1..12
             THEN Timestamp(int(SubSeq(s, 1, 4)), int(m), 1)
             ELSE NoDate
    ELSE NoDate

\* lines 141-163: re.match(r'([A-Za-z]{3})-(\d{2,4})'), "Jul-24" or "Jul-2024"
parse_mon_yy(s) ==
    IF Len(s) >= 6 /\ AllAlpha(SubSeq(s, 1, 3)) /\ s[4] = 45
       /\ DigitRun(SubSeq(s, 5, Len(s))) >= 2
    THEN LET r == DigitRun(SubSeq(s, 5, Len(s)))
             year_str == SubSeq(s, 5, 4 + (IF r > 4 THEN 4 ELSE r))
         IN  IF month_map(SubSeq(s, 1, 3)) # 0
             THEN Timestamp(year_of(year_str), month_map(SubSeq(s, 1, 3)), 1)
             ELSE NoDate
    ELSE NoDate

\* lines 165-169: pd.to_datetime(period_str, errors='coerce') for the strings
\* the model feeds it: "MM/DD/YYYY" is that day, text without a date is NaT
to_datetime(s) ==
    IF /\ Len(s) = 10
       /\ s[3] = 47 /\ s[6] = 47
       /\ \A i \in {1, 2, 4, 5, 7, 8, 9, 10} : IsDigit(s[i])
    THEN Timestamp(int(SubSeq(s, 7, 10)), int(SubSeq(s, 1, 2)), int(SubSeq(s, 4, 5)))
    ELSE NoDate

parse_period_to_date(period_arg) ==
    IF period_arg = <<>> THEN NoDate
    ELSE LET period_str == strip(period_arg)
         IN  IF parse_yy_mon(period_str).some THEN parse_yy_mon(period_str)
             ELSE IF parse_yyyy_mm(period_str).some THEN parse_yyyy_mm(period_str)
             ELSE IF parse_mon_yy(period_str).some THEN parse_mon_yy(period_str)
             ELSE to_datetime(period_str)


(***************************************************************************)
(* The period strings fed to parse_period_to_date: the three encodings of  *)
(* every month of 2000..2099, and other strings.                           *)
(***************************************************************************)
\* "%02d" % n
D2(n) == <<48 + ((n \div 10) % 10), 48 + (n % 10)>>

\* "%04d" % n
D4(n) == D2(n \div 100) \o D2(n % 100)

ClaimYears == 2000..2099

PeriodEncodings == {"YY-Mon", "YYYY-MM", "Mon-YY"}

LetterForms == {"title", "lower", "upper"}

Abbrev(month, form) ==
    IF form = "upper" THEN upper(month_names[month])
    ELSE IF form = "title" THEN title(month_names[month])
    ELSE month_names[month]

Encode(src) ==
    IF src.enc = "YY-Mon" THEN D2(src.year % 100) \o <<45>> \o Abbrev(src.month, src.form)
    ELSE IF src.enc = "YYYY-MM" THEN D4(src.year) \o <<45>> \o D2(src.month)
    ELSE Abbrev(src.month, src.form) \o <<45>> \o D2(src.year % 100)

PeriodSources ==
    {[enc |-> e, year |-> y, month |-> m, form |-> f] :
        e \in PeriodEncodings, y \in ClaimYears, m \in 1..12, f \in LetterForms}

OtherPeriods == {
    <<48, 55, 47, 49, 53, 47, 50, 48, 50, 52>>,   \* "07/15/2024"
    <<48, 50, 47, 50, 57, 47, 50, 48, 50, 52>>,   \* "02/29/2024"
    <<48, 50, 47, 51, 48, 47, 50, 48, 50, 52>>,   \* "02/30/2024"
    <<78, 47, 65>>,   \* "N/A"
    <<50, 48, 50, 52, 45, 49, 51>>,   \* "2024-13"
    <<50, 52, 45, 88, 121, 122>>,   \* "24-Xyz"
    <<50, 48, 50, 52, 45, 48, 55, 45, 49, 53>>,   \* "2024-07-15"
    <<32, 50, 52, 45, 74, 117, 108, 32>>,   \* " 24-Jul "
    <<74, 117, 108, 45, 50, 48, 50, 52>>,   \* "Jul-2024"
    <<50, 48, 50, 52, 45, 74, 117, 108>>,   \* "2024-Jul"
    <<74, 117, 108, 45, 49, 54, 48, 48>>,   \* "Jul-1600"
    <<110, 97, 110>>   \* "nan"
}

PeriodInit ==
    /\ \/ /\ period_src \in PeriodSources
          /\ period = Encode(period_src)
       \/ /\ period_src = [enc |-> "other", year |-> 0, month |-> 0, form |-> "asis"]
          /\ period \in OtherPeriods
    /\ period_pc = "start"
    /\ period_date = NoDate
    /\ OthersIdle("period")

ParsePeriod ==
    /\ period_pc = "start"
    /\ period_date' = parse_period_to_date(period)
    /\ period_pc' = "done"
    /\ UNCHANGED <<period_src, period>>
    /\ OthersUnchanged("period")

PeriodNext == ParsePeriod

SpecPeriod == PeriodInit /\ [][PeriodNext]_vars

\* C12: for every month of every year 2000..2099, parse_period_to_date
\* returns the first day of that month for each of the encodings "YY-Mon",
\* "YYYY-MM" and "Mon-YY", whatever the letter case of the month
\* abbreviation, a two-digit year YY being read as 2000 + YY.
C12_ThreeEncodingsSameFirstDay ==
    (period_pc = "done" /\ period_src.enc \in PeriodEncodings)
        => period_date = [some |-> TRUE,
                          date |-> 3 * (12 * period_src.year + period_src.month - 1)]

C12_Witness ==
    /\ period_pc = "done"
    /\ period_src = [enc |-> "Mon-YY", year |-> 2099, month |-> 12, form |-> "upper"]
    /\ period_date.some


(***************************************************************************)
(* Cells of a table read from a CSV file: a number (NaN where the cell is  *)
(* empty), a string, or None.                                              *)
(***************************************************************************)
NumCell(x) == [t |-> "num", f |-> x, s |-> <<>>]
StrCell(str) == [t |-> "str", f |-> NaN, s |-> str]
NoneCell == [t |-> "none", f |-> NaN, s |-> <<>>]

Str_nan == <<110, 97, 110>>   \* "nan"
Str_None == <<78, 111, 110, 101>>   \* "None"
Str_null == <<110, 117, 108, 108>>   \* "null"
Str_inf == <<105, 110, 102>>   \* "inf"
Str_infinity == <<105, 110, 102, 105, 110, 105, 116, 121>>   \* "infinity"

RECURSIVE Pow10(_)
Pow10(k) == IF k = 0 THEN 1 ELSE 10 * Pow10(k - 1)

AllDigits(s) == \A i \in DOMAIN s : IsDigit(s[i])

\* the value of an unsigned decimal "ddd", "ddd.", "ddd.ddd" or ".ddd"; NaN
\* for any other text
unsigned_decimal(s) ==
    LET dots == {i \in DOMAIN s : s[i] = 46}
    IN  IF s = <<>> THEN NaN
        ELSE IF dots = {} THEN (IF AllDigits(s) THEN Num(int(s)) ELSE NaN)
        ELSE IF Cardinality(dots) > 1 THEN NaN
        ELSE LET i == CHOOSE j \in dots : TRUE
                 whole == SubSeq(s, 1, i - 1)
                 frac == SubSeq(s, i + 1, Len(s))
             IN  IF AllDigits(whole) /\ AllDigits(frac) /\ Len(whole) + Len(frac) > 0
                 THEN Fin(int(whole) * Pow10(Len(frac)) + int(frac), Pow10(Len(frac)))
                 ELSE NaN

\* pd.to_numeric(text, errors='coerce') of one string
to_numeric(s) ==
    LET t == strip(s)
        signed == t # <<>> /\ t[1] \in {43, 45}
        body == IF signed THEN Tail(t) ELSE t
        mag == IF lower(body) \in {Str_inf, Str_infinity} THEN PInf ELSE unsigned_decimal(body)
    IN  IF signed /\ t[1] = 45 THEN FNeg(mag) ELSE mag

RECURSIVE NatStr(_)
\* str(n) of a natural number
NatStr(n) == IF n < 10 THEN <<48 + n>> ELSE NatStr(n \div 10) \o <<48 + (n % 10)>>

\* str(cell): the text itself, "None", "nan", or the digits of an integer
astype_str(cell) ==
    IF cell.t = "str" THEN cell.s
    ELSE IF cell.t = "none" THEN Str_None
    ELSE IF IsFinite(cell.f) /\ cell.f.d = 1
         THEN (IF cell.f.n < 0 THEN <<45>> \o NatStr(-cell.f.n) ELSE NatStr(cell.f.n))
    ELSE Str_nan

remove_char(s, c) == SelectSeq(s, LAMBDA x : x # c)

\* utils/helpers.py clean_numeric_column, on a series of one cell
clean_numeric_column(cell) ==
    IF cell.t \in {"str", "none"}
    THEN LET cleaned == strip(remove_char(astype_str(cell), 44))
         IN  IF cleaned \in {<<>>, Str_nan, Str_None, Str_null} THEN NaN
             ELSE to_numeric(cleaned)
    ELSE cell.f

\* models/predictor.py _clean_numeric_column, on a series of one cell
predictor_clean_numeric_column(cell) ==
    IF cell.t \in {"str", "none"}
    THEN to_numeric(strip(remove_char(remove_char(astype_str(cell), 44), 36)))
    ELSE cell.f

\* Python's `x or 0`
or_zero(x) == IF x = Num(0) THEN Num(0) ELSE x


(***************************************************************************)
(* utils/geocode.py normalize_state_name, the state tables of              *)
(* utils/geocode.py and models/constants.py.                               *)
(***************************************************************************)
\* state_map: full state name -> two-letter code
state_map == <<
    <<<<65, 76, 65, 66, 65, 77, 65>>, <<65, 76>>>>,   \* ALABAMA -> AL
    <<<<65, 76, 65, 83, 75, 65>>, <<65, 75>>>>,   \* ALASKA -> AK
    <<<<65, 82, 73, 90, 79, 78, 65>>, <<65, 90>>>>,   \* ARIZONA -> AZ
    <<<<65, 82, 75, 65, 78, 83, 65, 83>>, <<65, 82>>>>,   \* ARKANSAS -> AR
    <<<<67, 65, 76, 73, 70, 79, 82, 78, 73, 65>>, <<67, 65>>>>,   \* CALIFORNIA -> CA
    <<<<67, 79, 76, 79, 82, 65, 68, 79>>, <<67, 79>>>>,   \* COLORADO -> CO
    <<<<67, 79, 78, 78, 69, 67, 84, 73, 67, 85, 84>>, <<67, 84>>>>,   \* CONNECTICUT -> CT
    <<<<68, 69, 76, 65, 87, 65, 82, 69>>, <<68, 69>>>>,   \* DELAWARE -> DE
    <<<<70, 76, 79, 82, 73, 68, 65>>, <<70, 76>>>>,   \* FLORIDA -> FL
    <<<<71, 69, 79, 82, 71, 73, 65>>, <<71, 65>>>>,   \* GEORGIA -> GA
    <<<<72, 65, 87, 65, 73, 73>>, <<72, 73>>>>,   \* HAWAII -> HI
    <<<<73, 68, 65, 72, 79>>, <<73, 68>>>>,   \* IDAHO -> ID
    <<<<73, 76, 76, 73, 78, 79, 73, 83>>, <<73, 76>>>>,   \* ILLINOIS -> IL
    <<<<73, 78, 68, 73, 65, 78, 65>>, <<73, 78>>>>,   \* INDIANA -> IN
    <<<<73, 79, 87, 65>>, <<73, 65>>>>,   \* IOWA -> IA
    <<<<75, 65, 78, 83, 65, 83>>, <<75, 83>>>>,   \* KANSAS -> KS
    <<<<75, 69, 78, 84, 85, 67, 75, 89>>, <<75, 89>>>>,   \* KENTUCKY -> KY
    <<<<76, 79, 85, 73, 83, 73, 65, 78, 65>>, <<76, 65>>>>,   \* LOUISIANA -> LA
    <<<<77, 65, 73, 78, 69>>, <<77, 69>>>>,   \* MAINE -> ME
    <<<<77, 65, 82, 89, 76, 65, 78, 68>>, <<77, 68>>>>,   \* MARYLAND -> MD
    <<<<77, 65, 83, 83, 65, 67, 72, 85, 83, 69, 84, 84, 83>>, <<77, 65>>>>,   \* MASSACHUSETTS -> MA
    <<<<77, 73, 67, 72, 73, 71, 65, 78>>, <<77, 73>>>>,   \* MICHIGAN -> MI
    <<<<77, 73, 78, 78, 69, 83, 79, 84, 65>>, <<77, 78>>>>,   \* MINNESOTA -> MN
    <<<<77, 73, 83, 83, 73, 83, 83, 73, 80, 80, 73>>, <<77, 83>>>>,   \* MISSISSIPPI -> MS
    <<<<77, 73, 83, 83, 79, 85, 82, 73>>, <<77, 79>>>>,   \* MISSOURI -> MO
    <<<<77, 79, 78, 84, 65, 78, 65>>, <<77, 84>>>>,   \* MONTANA -> MT
    <<<<78, 69, 66, 82, 65, 83, 75, 65>>, <<78, 69>>>>,   \* NEBRASKA -> NE
    <<<<78, 69, 86, 65, 68, 65>>, <<78, 86>>>>,   \* NEVADA -> NV
    <<<<78, 69, 87, 32, 72, 65, 77, 80, 83, 72, 73, 82, 69>>, <<78, 72>>>>,   \* NEW HAMPSHIRE -> NH
    <<<<78, 69, 87, 32, 74, 69, 82, 83, 69, 89>>, <<78, 74>>>>,   \* NEW JERSEY -> NJ
    <<<<78, 69, 87, 32, 77, 69, 88, 73, 67, 79>>, <<78, 77>>>>,   \* NEW MEXICO -> NM
    <<<<78, 69, 87, 32, 89, 79, 82, 75>>, <<78, 89>>>>,   \* NEW YORK -> NY
    <<<<78, 79, 82, 84, 72, 32, 67, 65, 82, 79, 76, 73, 78, 65>>, <<78, 67>>>>,   \* NORTH CAROLINA -> NC
    <<<<78, 79, 82, 84, 72, 32, 68, 65, 75, 79, 84, 65>>, <<78, 68>>>>,   \* NORTH DAKOTA -> ND
    <<<<79, 72, 73, 79>>, <<79, 72>>>>,   \* OHIO -> OH
    <<<<79, 75, 76, 65, 72, 79, 77, 65>>, <<79, 75>>>>,   \* OKLAHOMA -> OK
    <<<<79, 82, 69, 71, 79, 78>>, <<79, 82>>>>,   \* OREGON -> OR
    <<<<80, 69, 78, 78, 83, 89, 76, 86, 65, 78, 73, 65>>, <<80, 65>>>>,   \* PENNSYLVANIA -> PA
    <<<<82, 72, 79, 68, 69, 32, 73, 83, 76, 65, 78, 68>>, <<82, 73>>>>,   \* RHODE ISLAND -> RI
    <<<<83, 79, 85, 84, 72, 32, 67, 65, 82, 79, 76, 73, 78, 65>>, <<83, 67>>>>,   \* SOUTH CAROLINA -> SC
    <<<<83, 79, 85, 84, 72, 32, 68, 65, 75, 79, 84, 65>>, <<83, 68>>>>,   \* SOUTH DAKOTA -> SD
    <<<<84, 69, 78, 78, 69, 83, 83, 69, 69>>, <<84, 78>>>>,   \* TENNESSEE -> TN
    <<<<84, 69, 88, 65, 83>>, <<84, 88>>>>,   \* TEXAS -> TX
    <<<<85, 84, 65, 72>>, <<85, 84>>>>,   \* UTAH -> UT
    <<<<86, 69, 82, 77, 79, 78, 84>>, <<86, 84>>>>,   \* VERMONT -> VT
    <<<<86, 73, 82, 71, 73, 78, 73, 65>>, <<86, 65>>>>,   \* VIRGINIA -> VA
    <<<<87, 65, 83, 72, 73, 78, 71, 84, 79, 78>>, <<87, 65>>>>,   \* WASHINGTON -> WA
    <<<<87, 69, 83, 84, 32, 86, 73, 82, 71, 73, 78, 73, 65>>, <<87, 86>>>>,   \* WEST VIRGINIA -> WV
    <<<<87, 73, 83, 67, 79, 78, 83, 73, 78>>, <<87, 73>>>>,   \* WISCONSIN -> WI
    <<<<87, 89, 79, 77, 73, 78, 71>>, <<87, 89>>>>,   \* WYOMING -> WY
    <<<<68, 73, 83, 84, 82, 73, 67, 84, 32, 79, 70, 32, 67, 79, 76, 85, 77, 66, 73, 65>>, <<68, 67>>>>,   \* DISTRICT OF COLUMBIA -> DC
    <<<<68, 67>>, <<68, 67>>>>   \* DC -> DC
>>

\* FIPS_TO_STATE: two-digit state FIPS code -> two-letter code
FIPS_TO_STATE == <<
    <<<<48, 49>>, <<65, 76>>>>,   \* 01 -> AL
    <<<<48, 50>>, <<65, 75>>>>,   \* 02 -> AK
    <<<<48, 52>>, <<65, 90>>>>,   \* 04 -> AZ
    <<<<48, 53>>, <<65, 82>>>>,   \* 05 -> AR
    <<<<48, 54>>, <<67, 65>>>>,   \* 06 -> CA
    <<<<48, 56>>, <<67, 79>>>>,   \* 08 -> CO
    <<<<48, 57>>, <<67, 84>>>>,   \* 09 -> CT
    <<<<49, 48>>, <<68, 69>>>>,   \* 10 -> DE
    <<<<49, 49>>, <<68, 67>>>>,   \* 11 -> DC
    <<<<49, 50>>, <<70, 76>>>>,   \* 12 -> FL
    <<<<49, 51>>, <<71, 65>>>>,   \* 13 -> GA
    <<<<49, 53>>, <<72, 73>>>>,   \* 15 -> HI
    <<<<49, 54>>, <<73, 68>>>>,   \* 16 -> ID
    <<<<49, 55>>, <<73, 76>>>>,   \* 17 -> IL
    <<<<49, 56>>, <<73, 78>>>>,   \* 18 -> IN
    <<<<49, 57>>, <<73, 65>>>>,   \* 19 -> IA
    <<<<50, 48>>, <<75, 83>>>>,   \* 20 -> KS
    <<<<50, 49>>, <<75, 89>>>>,   \* 21 -> KY
    <<<<50, 50>>, <<76, 65>>>>,   \* 22 -> LA
    <<<<50, 51>>, <<77, 69>>>>,   \* 23 -> ME
    <<<<50, 52>>, <<77, 68>>>>,   \* 24 -> MD
    <<<<50, 53>>, <<77, 65>>>>,   \* 25 -> MA
    <<<<50, 54>>, <<77, 73>>>>,   \* 26 -> MI
    <<<<50, 55>>, <<77, 78>>>>,   \* 27 -> MN
    <<<<50, 56>>, <<77, 83>>>>,   \* 28 -> MS
    <<<<50, 57>>, <<77, 79>>>>,   \* 29 -> MO
    <<<<51, 48>>, <<77, 84>>>>,   \* 30 -> MT
    <<<<51, 49>>, <<78, 69>>>>,   \* 31 -> NE
    <<<<51, 50>>, <<78, 86>>>>,   \* 32 -> NV
    <<<<51, 51>>, <<78, 72>>>>,   \* 33 -> NH
    <<<<51, 52>>, <<78, 74>>>>,   \* 34 -> NJ
    <<<<51, 53>>, <<78, 77>>>>,   \* 35 -> NM
    <<<<51, 54>>, <<78, 89>>>>,   \* 36 -> NY
    <<<<51, 55>>, <<78, 67>>>>,   \* 37 -> NC
    <<<<51, 56>>, <<78, 68>>>>,   \* 38 -> ND
    <<<<51, 57>>, <<79, 72>>>>,   \* 39 -> OH
    <<<<52, 48>>, <<79, 75>>>>,   \* 40 -> OK
    <<<<52, 49>>, <<79, 82>>>>,   \* 41 -> OR
    <<<<52, 50>>, <<80, 65>>>>,   \* 42 -> PA
    <<<<52, 52>>, <<82, 73>>>>,   \* 44 -> RI
    <<<<52, 53>>, <<83, 67>>>>,   \* 45 -> SC
    <<<<52, 54>>, <<83, 68>>>>,   \* 46 -> SD
    <<<<52, 55>>, <<84, 78>>>>,   \* 47 -> TN
    <<<<52, 56>>, <<84, 88>>>>,   \* 48 -> TX
    <<<<52, 57>>, <<85, 84>>>>,   \* 49 -> UT
    <<<<53, 48>>, <<86, 84>>>>,   \* 50 -> VT
    <<<<53, 49>>, <<86, 65>>>>,   \* 51 -> VA
    <<<<53, 51>>, <<87, 65>>>>,   \* 53 -> WA
    <<<<53, 52>>, <<87, 86>>>>,   \* 54 -> WV
    <<<<53, 53>>, <<87, 73>>>>,   \* 55 -> WI
    <<<<53, 54>>, <<87, 89>>>>   \* 56 -> WY
>>

\* state_centers: two-letter code -> (lat, lon)
state_centers == <<
    <<<<65, 76>>, <<Fin(32806671, 1000000), Fin(-86791130, 1000000)>>>>,   \* AL
    <<<<65, 75>>, <<Fin(61370716, 1000000), Fin(-152404419, 1000000)>>>>,   \* AK
    <<<<65, 90>>, <<Fin(33729759, 1000000), Fin(-111431221, 1000000)>>>>,   \* AZ
    <<<<65, 82>>, <<Fin(34969704, 1000000), Fin(-92373123, 1000000)>>>>,   \* AR
    <<<<67, 65>>, <<Fin(36116203, 1000000), Fin(-119681564, 1000000)>>>>,   \* CA
    <<<<67, 79>>, <<Fin(39059811, 1000000), Fin(-105311104, 1000000)>>>>,   \* CO
    <<<<67, 84>>, <<Fin(41597782, 1000000), Fin(-72755371, 1000000)>>>>,   \* CT
    <<<<68, 69>>, <<Fin(39318523, 1000000), Fin(-75507141, 1000000)>>>>,   \* DE
    <<<<70, 76>>, <<Fin(27766279, 1000000), Fin(-81686783, 1000000)>>>>,   \* FL
    <<<<71, 65>>, <<Fin(33040619, 1000000), Fin(-83643074, 1000000)>>>>,   \* GA
    <<<<72, 73>>, <<Fin(21094318, 1000000), Fin(-157498337, 1000000)>>>>,   \* HI
    <<<<73, 68>>, <<Fin(44240459, 1000000), Fin(-114478828, 1000000)>>>>,   \* ID
    <<<<73, 76>>, <<Fin(40349457, 1000000), Fin(-88986137, 1000000)>>>>,   \* IL
    <<<<73, 78>>, <<Fin(39849426, 1000000), Fin(-86258278, 1000000)>>>>,   \* IN
    <<<<73, 65>>, <<Fin(42011539, 1000000), Fin(-93210526, 1000000)>>>>,   \* IA
    <<<<75, 83>>, <<Fin(38526600, 1000000), Fin(-96726486, 1000000)>>>>,   \* KS
    <<<<75, 89>>, <<Fin(37668140, 1000000), Fin(-84670067, 1000000)>>>>,   \* KY
    <<<<76, 65>>, <<Fin(31169546, 1000000), Fin(-91867805, 1000000)>>>>,   \* LA
    <<<<77, 69>>, <<Fin(44323535, 1000000), Fin(-69765261, 1000000)>>>>,   \* ME
    <<<<77, 68>>, <<Fin(39063946, 1000000), Fin(-76802101, 1000000)>>>>,   \* MD
    <<<<77, 65>>, <<Fin(42230171, 1000000), Fin(-71530106, 1000000)>>>>,   \* MA
    <<<<77, 73>>, <<Fin(43326618, 1000000), Fin(-84536095, 1000000)>>>>,   \* MI
    <<<<77, 78>>, <<Fin(45694454, 1000000), Fin(-93900192, 1000000)>>>>,   \* MN
    <<<<77, 83>>, <<Fin(32741646, 1000000), Fin(-89678696, 1000000)>>>>,   \* MS
    <<<<77, 79>>, <<Fin(38572954, 1000000), Fin(-92189283, 1000000)>>>>,   \* MO
    <<<<77, 84>>, <<Fin(46921925, 1000000), Fin(-110454353, 1000000)>>>>,   \* MT
    <<<<78, 69>>, <<Fin(41125370, 1000000), Fin(-98268082, 1000000)>>>>,   \* NE
    <<<<78, 86>>, <<Fin(38313515, 1000000), Fin(-117055374, 1000000)>>>>,   \* NV
    <<<<78, 72>>, <<Fin(43452492, 1000000), Fin(-71563896, 1000000)>>>>,   \* NH
    <<<<78, 74>>, <<Fin(40298904, 1000000), Fin(-74521011, 1000000)>>>>,   \* NJ
    <<<<78, 77>>, <<Fin(34840515, 1000000), Fin(-106248482, 1000000)>>>>,   \* NM
    <<<<78, 89>>, <<Fin(42165726, 1000000), Fin(-74948051, 1000000)>>>>,   \* NY
    <<<<78, 67>>, <<Fin(35630066, 1000000), Fin(-79806419, 1000000)>>>>,   \* NC
    <<<<78, 68>>, <<Fin(47528912, 1000000), Fin(-99784012, 1000000)>>>>,   \* ND
    <<<<79, 72>>, <<Fin(40388783, 1000000), Fin(-82764915, 1000000)>>>>,   \* OH
    <<<<79, 75>>, <<Fin(35565342, 1000000), Fin(-96928917, 1000000)>>>>,   \* OK
    <<<<79, 82>>, <<Fin(44572021, 1000000), Fin(-122070938, 1000000)>>>>,   \* OR
    <<<<80, 65>>, <<Fin(40590752, 1000000), Fin(-77209755, 1000000)>>>>,   \* PA
    <<<<82, 73>>, <<Fin(41680893, 1000000), Fin(-7151178, 100000)>>>>,   \* RI
    <<<<83, 67>>, <<Fin(33856892, 1000000), Fin(-80945007, 1000000)>>>>,   \* SC
    <<<<83, 68>>, <<Fin(44299782, 1000000), Fin(-99438828, 1000000)>>>>,   \* SD
    <<<<84, 78>>, <<Fin(35747845, 1000000), Fin(-86692345, 1000000)>>>>,   \* TN
    <<<<84, 88>>, <<Fin(31054487, 1000000), Fin(-97563461, 1000000)>>>>,   \* TX
    <<<<85, 84>>, <<Fin(40150032, 1000000), Fin(-111862434, 1000000)>>>>,   \* UT
    <<<<86, 84>>, <<Fin(44045876, 1000000), Fin(-72710686, 1000000)>>>>,   \* VT
    <<<<86, 65>>, <<Fin(37769337, 1000000), Fin(-78169968, 1000000)>>>>,   \* VA
    <<<<87, 65>>, <<Fin(47400902, 1000000), Fin(-121490494, 1000000)>>>>,   \* WA
    <<<<87, 86>>, <<Fin(38491226, 1000000), Fin(-80954453, 1000000)>>>>,   \* WV
    <<<<87, 73>>, <<Fin(44268543, 1000000), Fin(-89616508, 1000000)>>>>,   \* WI
    <<<<87, 89>>, <<Fin(42755966, 1000000), Fin(-107302490, 1000000)>>>>,   \* WY
    <<<<68, 67>>, <<Fin(38907192, 1000000), Fin(-77036873, 1000000)>>>>   \* DC
>>

\* the centre of the continental United States
US_CENTER == <<Fin(398283, 10000), Fin(-985795, 10000)>>

\* dict.get(key, default) and `key in dict` on a table of <<key, value>> pairs
dict_has(table, key) == \E i \in DOMAIN table : table[i][1] = key

dict_get(table, key, default) ==
    IF dict_has(table, key)
    THEN table[CHOOSE i \in DOMAIN table : table[i][1] = key][2]
    ELSE default

\* normalize_state_name of a cell: None for None and NaN, otherwise the
\* stripped upper-cased text, a full state name replaced by its code
normalize_state_name(state_name) ==
    IF state_name.t = "none" THEN None
    ELSE IF state_name.t = "num" /\ IsNaN(state_name.f) THEN None
    ELSE LET state_str == upper(strip(astype_str(state_name)))
         IN  IF Len(state_str) = 2 THEN Some(state_str)
             ELSE Some(dict_get(state_map, state_str, state_str))


(***************************************************************************)
(* utils/data_processing.py: the four transformers.  A transformer returns *)
(* the rows of its fragment.                                               *)
(***************************************************************************)
RECURSIVE zfill(_, _)
\* str.zfill(width) of a string without a sign
zfill(s, width) == IF Len(s) >= width THEN s ELSE zfill(<<48>> \o s, width)

\* pd.to_datetime(f"{year}-{month}-01", errors='coerce') for an integer year
month_start(year, month) ==
    IF year.t = "num" /\ IsFinite(year.f) /\ year.f.d = 1
    THEN Timestamp(year.f.n, month, 1)
    ELSE NoDate

\* lines 27-43: the three monthly rows of one input row
federal_rows_of(row) ==
    LET county == strip(astype_str(row.County))
        state == strip(astype_str(row.State))
        emp == <<or_zero(clean_numeric_column(row.January_Employment)),
                 or_zero(clean_numeric_column(row.February_Employment)),
                 or_zero(clean_numeric_column(row.March_Employment))>>
    IN  [month \in 1..3 |->
            [county |-> normalize_county_name(county),
             state |-> normalize_state_name(StrCell(state)),
             date |-> month_start(row.Year, month),
             federal_employment |-> emp[month]]]

RECURSIVE federal_processed(_)
federal_processed(federal) ==
    IF federal = <<>> THEN <<>>
    ELSE federal_rows_of(Head(federal)) \o federal_processed(Tail(federal))

\* line 46: dropna(subset=['date', 'county', 'state'])
process_federal_employment(federal) ==
    LET kept == SelectSeq(federal_processed(federal),
                          LAMBDA r : r.date.some /\ r.county.some /\ r.state.some)
    IN  [i \in DOMAIN kept |->
            [county |-> kept[i].county.s, state |-> kept[i].state.s,
             date |-> kept[i].date.date,
             federal_employment |-> kept[i].federal_employment]]

\* lines 56-65: the candidate row of one input row
unemployment_row_of(row) ==
    LET county == normalize_county_name(astype_str(row.County))
        state_fips == zfill(astype_str(row.State_FIPS_Code), 2)
    IN  [county |-> county,
         state |-> dict_get(FIPS_TO_STATE, state_fips, state_fips),
         date |-> parse_period_to_date(astype_str(row.Period)),
         unemployment_rate |-> or_zero(clean_numeric_column(row.Unemployment_Rate))]

\* lines 67-76: a row is kept when it has a date and a county
RECURSIVE process_unemployment(_)
process_unemployment(unemployment) ==
    IF unemployment = <<>> THEN <<>>
    ELSE LET r == unemployment_row_of(Head(unemployment))
         IN  (IF r.date.some /\ r.county.some
              THEN <<[county |-> r.county.s, state |-> r.state, date |-> r.date.date,
                      unemployment_rate |-> r.unemployment_rate]>>
              ELSE <<>>)
             \o process_unemployment(Tail(unemployment))

\* Python's truth of an optional string: None and '' are false
truthy(opt) == opt.some /\ opt.s # <<>>

RECURSIVE process_snap_data(_)
process_snap_data(snap) ==
    IF snap = <<>> THEN <<>>
    ELSE LET row == Head(snap)
             county == normalize_county_name(astype_str(row.county_name))
             state == normalize_state_name(StrCell(astype_str(row.state_name)))
         IN  (IF truthy(county) /\ truthy(state)
              THEN <<[county |-> county.s, state |-> state.s,
                      snap_households |-> or_zero(clean_numeric_column(row.snap_households))]>>
              ELSE <<>>)
             \o process_snap_data(Tail(snap))

RECURSIVE process_cost_data(_)
process_cost_data(cost) ==
    IF cost = <<>> THEN <<>>
    ELSE LET row == Head(cost)
             county == normalize_county_name(astype_str(row.county))
             state == normalize_state_name(StrCell(astype_str(row.state)))
         IN  (IF truthy(county) /\ truthy(state)
              THEN <<[county |-> county.s, state |-> state.s,
                      total_cost |-> or_zero(clean_numeric_column(row.total_cost))]>>
              ELSE <<>>)
             \o process_cost_data(Tail(cost))


(***************************************************************************)
(* utils/data_processing.py: preprocess_data.                              *)
(***************************************************************************)
RECURSIVE StrLess(_, _)
\* a < b for two strings
StrLess(a, b) ==
    IF b = <<>> THEN FALSE
    ELSE IF a = <<>> THEN TRUE
    ELSE IF Head(a) # Head(b) THEN Head(a) < Head(b)
    ELSE StrLess(Tail(a), Tail(b))

RECURSIVE merge_federal_inner(_, _)
\* an inner merge on county, state and date: a left row without a match is lost
merge_federal_inner(left, right) ==
    IF left = <<>> THEN <<>>
    ELSE LET l == Head(left)
             hits == SelectSeq(right, LAMBDA r : /\ r.county = l.county
                                                 /\ r.state = l.state
                                                 /\ r.date = l.date)
         IN  [i \in DOMAIN hits |->
                 l @@ [federal_employment |-> hits[i].federal_employment]]
             \o merge_federal_inner(Tail(left), right)

RECURSIVE merge_federal(_, _)
\* lines 217-221: left merge on county, state and date
merge_federal(left, right) ==
    IF left = <<>> THEN <<>>
    ELSE LET l == Head(left)
             hits == SelectSeq(right, LAMBDA r : /\ r.county = l.county
                                                 /\ r.state = l.state
                                                 /\ r.date = l.date)
         IN  (IF hits = <<>> THEN <<l @@ [federal_employment |-> NaN]>>
              ELSE [i \in DOMAIN hits |->
                       l @@ [federal_employment |-> hits[i].federal_employment]])
             \o merge_federal(Tail(left), right)

RECURSIVE merge_snap(_, _)
\* lines 223-227: left merge on county and state
merge_snap(left, right) ==
    IF left = <<>> THEN <<>>
    ELSE LET l == Head(left)
             hits == SelectSeq(right, LAMBDA r : r.county = l.county /\ r.state = l.state)
         IN  (IF hits = <<>> THEN <<l @@ [snap_households |-> NaN]>>
              ELSE [i \in DOMAIN hits |->
                       l @@ [snap_households |-> hits[i].snap_households]])
             \o merge_snap(Tail(left), right)

RECURSIVE merge_cost(_, _)
\* lines 229-233: left merge on county and state
merge_cost(left, right) ==
    IF left = <<>> THEN <<>>
    ELSE LET l == Head(left)
             hits == SelectSeq(right, LAMBDA r : r.county = l.county /\ r.state = l.state)
         IN  (IF hits = <<>> THEN <<l @@ [total_cost |-> NaN]>>
              ELSE [i \in DOMAIN hits |-> l @@ [total_cost |-> hits[i].total_cost]])
             \o merge_cost(Tail(left), right)

\* the order of sort_values(['county', 'state', 'date'])
KeyLess(a, b) ==
    IF a.county # b.county THEN StrLess(a.county, b.county)
    ELSE IF a.state # b.state THEN StrLess(a.state, b.state)
    ELSE a.date < b.date

RECURSIVE sort_by_key(_)
\* line 239: rows of equal key keep their order
sort_by_key(t) ==
    IF t = <<>> THEN <<>>
    ELSE LET rest == sort_by_key(SubSeq(t, 1, Len(t) - 1))
             x == t[Len(t)]
             k == Cardinality({i \in DOMAIN rest : ~KeyLess(x, rest[i])})
         IN  SubSeq(rest, 1, k) \o <<x>> \o SubSeq(rest, k + 1, Len(rest))

\* lines 213-242: merge the fragments, compute the risk index, sort
merge_fragments(unemployment, federal, snap, cost) ==
    LET merged == merge_cost(merge_snap(merge_federal(unemployment, federal), snap), cost)
        risk == calculate_risk_index(merged)
    IN  sort_by_key([i \in DOMAIN merged |->
                        [county |-> merged[i].county, state |-> merged[i].state,
                         date |-> merged[i].date] @@ risk[i]])


(***************************************************************************)
(* Specification SpecPrep: preprocess_data on four small source tables     *)
(* whose rows repeat keys, spell one county in several ways, and leave     *)
(* county, state or period blank, missing or unreadable.                   *)
(***************************************************************************)
Missing == NumCell(NaN)

FederalRow(county, state) ==
    [County |-> county, State |-> state, Year |-> NumCell(Num(2024)),
     January_Employment |-> StrCell(<<50>>), February_Employment |-> NumCell(Num(11)),
     March_Employment |-> Missing]

FederalRows == {
    FederalRow(StrCell(<<67, 111, 111, 107>>), StrCell(<<73, 108, 108, 105, 110, 111, 105, 115>>)),      \* "Cook", "Illinois"
    FederalRow(StrCell(<<67, 111, 111, 107, 32, 67, 111, 117, 110, 116, 121>>), StrCell(<<73, 76>>)),      \* "Cook County", "IL"
    FederalRow(StrCell(<<67, 111, 111, 107>>), StrCell(<<32>>))          \* "Cook", " "
}

UnemploymentRow(county, fips, period_cell, rate) ==
    [County |-> county, State_FIPS_Code |-> fips, Period |-> period_cell,
     Unemployment_Rate |-> NumCell(Num(rate))]

UnemploymentRows == {
    UnemploymentRow(StrCell(<<67, 111, 111, 107, 32, 67, 111, 117, 110, 116, 121>>), NumCell(Num(17)), StrCell(<<50, 52, 45, 74, 97, 110>>), 5),   \* "Cook County", 17, "24-Jan"
    UnemploymentRow(StrCell(<<67, 111, 111, 107, 32, 67, 111, 117, 110, 116, 121>>), StrCell(<<49, 55>>), StrCell(<<50, 48, 50, 52, 45, 48, 49>>), 6),             \* "Cook County", "17", "2024-01"
    UnemploymentRow(StrCell(<<67, 111, 111, 107, 32, 67, 111, 117, 110, 116, 121>>), NumCell(Num(17)), StrCell(<<48, 55, 47, 49, 53, 47, 50, 48, 50, 52>>), 5),    \* "Cook County", 17, "07/15/2024"
    UnemploymentRow(Missing, NumCell(Num(17)), StrCell(<<50, 52, 45, 74, 97, 110>>), 5),        \* no county
    UnemploymentRow(StrCell(<<67, 111, 111, 107, 32, 67, 111, 117, 110, 116, 121>>), NumCell(Num(99)), StrCell(<<50, 52, 45, 74, 97, 110>>), 5),   \* FIPS code 99
    UnemploymentRow(StrCell(<<32>>), NumCell(Num(17)), StrCell(<<50, 52, 45, 74, 97, 110>>), 5)         \* blank county
}

SnapRow(county, state, households) ==
    [county_name |-> county, state_name |-> state, snap_households |-> NumCell(Num(households))]

SnapRows == {
    SnapRow(StrCell(<<67, 111, 111, 107, 32, 67, 111, 117, 110, 116, 121>>), StrCell(<<73, 108, 108, 105, 110, 111, 105, 115>>), 3),   \* "Cook County", "Illinois"
    SnapRow(StrCell(<<67, 111, 111, 107>>), StrCell(<<73, 76>>), 4),               \* "Cook", "IL"
    SnapRow(StrCell(<<67, 111, 111, 107>>), StrCell(<<32>>), 5)             \* "Cook", " "
}

CostRow(county, state, cost) ==
    [county |-> county, state |-> state, total_cost |-> NumCell(Num(cost))]

CostRows == {
    CostRow(StrCell(<<67, 111, 111, 107>>), StrCell(<<73, 76>>), 10),                \* "Cook", "IL"
    CostRow(Missing, StrCell(<<73, 76>>), 30)                \* no county
}

\* the tables of at most two rows over a set of rows
TablesOver(rows) == {<<>>} \cup {<<r>> : r \in rows} \cup {<<r, q>> : r \in rows, q \in rows}

PrepInit ==
    /\ federal_df \in TablesOver(FederalRows)
    /\ unemployment_df \in TablesOver(UnemploymentRows)
    /\ snap_df \in TablesOver(SnapRows)
    /\ cost_df \in {<<>>} \cup {<<r>> : r \in CostRows}
    /\ federal_ts = <<>>
    /\ unemployment_ts = <<>>
    /\ snap_latest = <<>>
    /\ cost_latest = <<>>
    /\ preprocessed = <<>>
    /\ prep_pc = "federal"
    /\ OthersIdle("prep")

\* line 208; dropna raises KeyError on a frame built from no rows
ProcessFederalEmployment ==
    /\ prep_pc = "federal"
    /\ IF federal_processed(federal_df) = <<>>
       THEN /\ prep_pc' = "raised"
            /\ UNCHANGED federal_ts
       ELSE /\ federal_ts' = process_federal_employment(federal_df)
            /\ prep_pc' = "unemployment"
    /\ UNCHANGED <<federal_df, unemployment_df, snap_df, cost_df, unemployment_ts,
                   snap_latest, cost_latest, preprocessed>>
    /\ OthersUnchanged("prep")

\* line 209; dropna raises KeyError on a frame built from no rows
ProcessUnemployment ==
    /\ prep_pc = "unemployment"
    /\ IF process_unemployment(unemployment_df) = <<>>
       THEN /\ prep_pc' = "raised"
            /\ UNCHANGED unemployment_ts
       ELSE /\ unemployment_ts' = process_unemployment(unemployment_df)
            /\ prep_pc' = "snap"
    /\ UNCHANGED <<federal_df, unemployment_df, snap_df, cost_df, federal_ts,
                   snap_latest, cost_latest, preprocessed>>
    /\ OthersUnchanged("prep")

\* line 210
ProcessSnapData ==
    /\ prep_pc = "snap"
    /\ snap_latest' = process_snap_data(snap_df)
    /\ prep_pc' = "cost"
    /\ UNCHANGED <<federal_df, unemployment_df, snap_df, cost_df, federal_ts,
                   unemployment_ts, cost_latest, preprocessed>>
    /\ OthersUnchanged("prep")

\* line 211
ProcessCostData ==
    /\ prep_pc = "cost"
    /\ cost_latest' = process_cost_data(cost_df)
    /\ prep_pc' = "merge"
    /\ UNCHANGED <<federal_df, unemployment_df, snap_df, cost_df, federal_ts,
                   unemployment_ts, snap_latest, preprocessed>>
    /\ OthersUnchanged("prep")

\* lines 213-242; selecting the columns of a frame built from no rows raises
\* KeyError
MergeFragments ==
    /\ prep_pc = "merge"
    /\ IF snap_latest = <<>> \/ cost_latest = <<>>
       THEN /\ prep_pc' = "raised"
            /\ UNCHANGED preprocessed
       ELSE /\ preprocessed' = merge_fragments(unemployment_ts, federal_ts,
                                                snap_latest, cost_latest)
            /\ prep_pc' = "done"
    /\ UNCHANGED <<federal_df, unemployment_df, snap_df, cost_df, federal_ts,
                   unemployment_ts, snap_latest, cost_latest>>
    /\ OthersUnchanged("prep")

PrepNext ==
    \/ ProcessFederalEmployment
    \/ ProcessUnemployment
    \/ ProcessSnapData
    \/ ProcessCostData
    \/ MergeFragments

SpecPrep == PrepInit /\ [][PrepNext]_vars


\* C13 (as claimed): every date carried by a row of the unemployment
\* fragment, the employment fragment and the merged time series is the first
\* day of a month, for every Period string that parse_period_to_date accepts,
\* its generic fallback included.
C13_DatesAreFirstOfMonth ==
    /\ \A i \in DOMAIN unemployment_ts : unemployment_ts[i].date % 3 = 0
    /\ \A i \in DOMAIN federal_ts : federal_ts[i].date % 3 = 0
    /\ \A i \in DOMAIN preprocessed : preprocessed[i].date % 3 = 0

\* C14 (as claimed): the table preprocess_data returns has at most one row
\* per (county, state, date), also when a source repeats a county or the
\* unemployment file repeats a (county, state, period).
C14_OneRowPerCountyStateDate ==
    prep_pc = "done" =>
        \A i, j \in DOMAIN preprocessed :
            (/\ preprocessed[i].county = preprocessed[j].county
             /\ preprocessed[i].state = preprocessed[j].state
             /\ preprocessed[i].date = preprocessed[j].date) => i = j

\* a county or state cell that is given: a string that is not blank
Given(cell) == cell.t = "str" /\ strip(cell.s) # <<>>

\* a state cell that names one of the 51 states, by name, code or FIPS code
Resolvable(cell) ==
    \/ /\ cell.t = "str"
       /\ \/ dict_has(state_map, upper(strip(cell.s)))
          \/ dict_has(state_centers, upper(strip(cell.s)))
          \/ dict_has(FIPS_TO_STATE, zfill(cell.s, 2))
    \/ /\ cell.t = "num"
       /\ dict_has(FIPS_TO_STATE, zfill(astype_str(cell), 2))

HasCountyAndState(r) == r.county # <<>> /\ dict_has(state_centers, r.state)

CountGood(df, Good(_)) == Cardinality({i \in DOMAIN df : Good(df[i])})

\* C18 (as claimed): every row the four transformers output carries a
\* non-empty county and a resolved state, and an input row whose county or
\* state is missing, blank or not normalizable gives no output row (none of
\* its three monthly rows for the employment transformer).
C18_RowsCarryCountyAndState ==
    /\ \A i \in DOMAIN federal_ts : HasCountyAndState(federal_ts[i])
    /\ \A i \in DOMAIN unemployment_ts : HasCountyAndState(unemployment_ts[i])
    /\ \A i \in DOMAIN snap_latest : HasCountyAndState(snap_latest[i])
    /\ \A i \in DOMAIN cost_latest : HasCountyAndState(cost_latest[i])
    /\ Len(federal_ts)
          <= 3 * CountGood(federal_df, LAMBDA r : Given(r.County) /\ Resolvable(r.State))
    /\ Len(unemployment_ts)
          <= CountGood(unemployment_df,
                       LAMBDA r : Given(r.County) /\ Resolvable(r.State_FIPS_Code))
    /\ Len(snap_latest)
          <= CountGood(snap_df, LAMBDA r : Given(r.county_name) /\ Resolvable(r.state_name))
    /\ Len(cost_latest)
          <= CountGood(cost_df, LAMBDA r : Given(r.county) /\ Resolvable(r.state))


KeyOf(r) == <<r.county, r.state, r.date>>

KeysOf(rows) == {KeyOf(rows[i]) : i \in DOMAIN rows}

\* C24: the (county, state, date) keys of the table preprocess_data returns
\* are exactly the keys of the unemployment fragment: the three left joins
\* keep every unemployment row, and a county or date found only in the
\* employment, SNAP or cost-of-living source never appears.
C24_KeysAreUnemploymentKeys ==
    prep_pc = "done" =>
        /\ KeysOf(preprocessed) = KeysOf(unemployment_ts)
        /\ \A k \in KeysOf(unemployment_ts) :
              Cardinality({i \in DOMAIN preprocessed : KeyOf(preprocessed[i]) = k})
                  >= Cardinality({i \in DOMAIN unemployment_ts :
                                     KeyOf(unemployment_ts[i]) = k})

\* C24 witness: an unemployment row without an employment row of its key, and
\* employment, SNAP and cost-of-living rows of keys the unemployment fragment
\* does not have.
C24_Witness ==
    /\ prep_pc = "done"
    /\ \E i \in DOMAIN unemployment_ts :
          KeyOf(unemployment_ts[i]) \notin KeysOf(federal_ts)
    /\ KeysOf(federal_ts) \ KeysOf(unemployment_ts) # {}
    /\ \E i \in DOMAIN snap_latest : \A j \in DOMAIN unemployment_ts :
          <<snap_latest[i].county, snap_latest[i].state>>
              # <<unemployment_ts[j].county, unemployment_ts[j].state>>
    /\ \E i \in DOMAIN cost_latest : \A j \in DOMAIN unemployment_ts :
          <<cost_latest[i].county, cost_latest[i].state>>
              # <<unemployment_ts[j].county, unemployment_ts[j].state>>
    /\ Len(preprocessed) > 0


(***************************************************************************)
(* utils/geocode.py: get_county_coordinates.  The lookup built by          *)
(* _load_county_lookup is a sequence of entries in insertion order, keyed  *)
(* by (normalized county, state code).                                     *)
(***************************************************************************)
\* Python's truth of an argument: None and '' are false
cell_truthy(cell) ==
    IF cell.t = "none" THEN FALSE
    ELSE IF cell.t = "str" THEN cell.s # <<>>
    ELSE cell.f # Num(0)

\* _normalize_county_name of an argument: '' for None
geocode_normalize_cell(cell) ==
    IF cell.t = "none" THEN <<>> ELSE geocode_normalize_county_name(astype_str(cell))

\* `a in b` for two strings
str_in(a, b) == a = <<>> \/ Contains(b, a)

\* lines 250-258: the exact key, else the first entry of the state whose
\* county contains or is contained in the name; <<>> when there is none
county_level_lookup(lookup, cn, state_code) ==
    LET exact == {i \in DOMAIN lookup : lookup[i].county = cn /\ lookup[i].state = state_code}
        near == {i \in DOMAIN lookup :
                    /\ lookup[i].state = state_code
                    /\ \/ cn = lookup[i].county
                       \/ str_in(cn, lookup[i].county)
                       \/ str_in(lookup[i].county, cn)}
    IN  IF exact # {} THEN <<lookup[CHOOSE i \in exact : TRUE].coords>>
        ELSE IF near # {} THEN <<lookup[CHOOSE i \in near : \A j \in near : i <= j].coords>>
        ELSE <<>>

get_county_coordinates(lookup, county, state) ==
    LET state_code == normalize_state_name(state)
        found == IF cell_truthy(county)
                 THEN county_level_lookup(lookup, geocode_normalize_cell(county), state_code.s)
                 ELSE <<>>
    IN  IF ~state_code.some THEN US_CENTER
        ELSE IF found # <<>> THEN found[1]
        ELSE IF dict_has(state_centers, state_code.s)
             THEN dict_get(state_centers, state_code.s, US_CENTER)
        ELSE US_CENTER

(***************************************************************************)
(* Specification SpecGeo: one call of get_county_coordinates, for every    *)
(* state code of the centroid table and other state values, county names   *)
(* with and without an entry, and small gazetteers.                        *)
(***************************************************************************)
Str_cook == <<99, 111, 111, 107>>   \* "cook"
Str_lake == <<108, 97, 107, 101>>   \* "lake"
Str_PR == <<80, 82>>   \* "PR"

GazetteerEntries == {
    [county |-> Str_cook, state |-> Str_IL, coords |-> <<Fin(418, 10), Fin(-877, 10)>>],
    [county |-> Str_lake, state |-> Str_IL, coords |-> <<Fin(423, 10), Fin(-880, 10)>>],
    [county |-> Str_cook, state |-> Str_PR, coords |-> <<Fin(182, 10), Fin(-664, 10)>>]
}

\* the lookups of at most two entries; a key occurs once
Gazetteers ==
    {<<>>} \cup {<<e>> : e \in GazetteerEntries}
           \cup {p \in GazetteerEntries \X GazetteerEntries : p[1] # p[2]}

StateCodes == {state_centers[i][1] : i \in DOMAIN state_centers}

StateArguments ==
    {StrCell(c) : c \in StateCodes} \cup {
        NoneCell,
        Missing,
        StrCell(<<90, 90>>),            \* "ZZ"
        StrCell(<<80, 82>>),            \* "PR"
        StrCell(<<80, 117, 101, 114, 116, 111, 32, 82, 105, 99, 111>>),    \* "Puerto Rico"
        StrCell(<<105, 108, 108, 105, 110, 111, 105, 115>>),      \* "illinois"
        StrCell(<<32, 105, 108, 32>>)             \* " il "
    }

CountyArguments == {
    NoneCell,
    StrCell(<<67, 111, 111, 107, 32, 67, 111, 117, 110, 116, 121>>),        \* "Cook County"
    StrCell(<<76, 97, 107, 101, 32, 67, 111, 117, 110, 116, 121>>),        \* "Lake County"
    StrCell(<<65, 100, 97, 109, 115>>),             \* "Adams"
    StrCell(<<67, 111, 117, 110, 116, 121>>),            \* "County"
    StrCell(<<67, 111, 111>>),               \* "Coo"
    StrCell(<<67, 111, 111, 107, 32, 97, 110, 100, 32, 76, 97, 107, 101>>)        \* "Cook and Lake"
}

GeoInit ==
    /\ COUNTY_LOOKUP \in Gazetteers
    /\ geo_county \in CountyArguments
    /\ geo_state \in StateArguments
    /\ geo_pc = "start"
    /\ coordinates = <<NaN, NaN>>
    /\ OthersIdle("geo")

GetCountyCoordinates ==
    /\ geo_pc = "start"
    /\ coordinates' = get_county_coordinates(COUNTY_LOOKUP, geo_county, geo_state)
    /\ geo_pc' = "done"
    /\ UNCHANGED <<COUNTY_LOOKUP, geo_county, geo_state>>
    /\ OthersUnchanged("geo")

GeoNext == GetCountyCoordinates

SpecGeo == GeoInit /\ [][GeoNext]_vars

\* the state argument names one of the 51 codes of the centroid table
RecognizedState ==
    /\ geo_state.t = "str"
    /\ \/ upper(strip(geo_state.s)) \in StateCodes
       \/ dict_has(state_map, upper(strip(geo_state.s)))

CodeOfState ==
    IF upper(strip(geo_state.s)) \in StateCodes THEN upper(strip(geo_state.s))
    ELSE dict_get(state_map, upper(strip(geo_state.s)), <<>>)

\* the gazetteer has an entry for the county argument in the state
HasEntry ==
    \E i \in DOMAIN COUNTY_LOOKUP :
        /\ COUNTY_LOOKUP[i].county = geocode_normalize_cell(geo_county)
        /\ COUNTY_LOOKUP[i].state = CodeOfState

\* C15 (as claimed): for a county name with no gazetteer entry for the given
\* state (names that normalize to an empty or very short string included)
\* and a state that is one of the 51 recognized codes,
\* get_county_coordinates returns that state's centroid of state_centers,
\* whatever the gazetteer holds for other counties of the state.
C15_NoEntryGivesStateCentroid ==
    (geo_pc = "done" /\ RecognizedState /\ ~HasEntry)
        => coordinates = dict_get(state_centers, CodeOfState, <<NaN, NaN>>)

\* C16 (as claimed): for a state value that is not one of the 51 codes of
\* the centroid table (null, "ZZ", an unmapped full name, a territory code),
\* get_county_coordinates returns the continental-US centroid
\* (39.8283, -98.5795), whatever the county name and the gazetteer.
C16_UnrecognizedStateGivesUSCentroid ==
    (geo_pc = "done" /\ ~RecognizedState)
        => coordinates = <<Fin(398283, 10000), Fin(-985795, 10000)>>

\* the entries of the gazetteer for the query's exact key, and those of the
\* query's state whose county contains or is contained by the query's name
ExactEntries ==
    {i \in DOMAIN COUNTY_LOOKUP :
        /\ COUNTY_LOOKUP[i].county = geocode_normalize_cell(geo_county)
        /\ Some(COUNTY_LOOKUP[i].state) = normalize_state_name(geo_state)}

SubstringEntries ==
    {i \in DOMAIN COUNTY_LOOKUP :
        /\ Some(COUNTY_LOOKUP[i].state) = normalize_state_name(geo_state)
        /\ \/ str_in(geocode_normalize_cell(geo_county), COUNTY_LOOKUP[i].county)
           \/ str_in(COUNTY_LOOKUP[i].county, geocode_normalize_cell(geo_county))}

\* C26 (as claimed): get_county_coordinates returns a pair for every input
\* and resolves in strict priority order: the exact (normalized county, state)
\* entry if there is one; otherwise an entry of the same state whose county
\* contains or is contained by the query's normalized name; otherwise the
\* state centroid; otherwise the continental-US centroid.
C26_StrictPriorityOrder ==
    geo_pc = "done" =>
        IF ExactEntries # {}
        THEN coordinates \in {COUNTY_LOOKUP[i].coords : i \in ExactEntries}
        ELSE IF SubstringEntries # {}
        THEN coordinates \in {COUNTY_LOOKUP[i].coords : i \in SubstringEntries}
        ELSE IF normalize_state_name(geo_state).some
                /\ dict_has(state_centers, normalize_state_name(geo_state).s)
        THEN coordinates = dict_get(state_centers, normalize_state_name(geo_state).s,
                                    US_CENTER)
        ELSE coordinates = US_CENTER


(***************************************************************************)
(* The forecast orchestrator: forecast_risk_by_county in                   *)
(* models/forecasting.py (with forecast_single_county and                  *)
(* extract_forecast_value) and in models/predictor.py, and the pipeline of *)
(* predictor.py run as a script.  A record carries region, county, state   *)
(* and risk_score; lat and lon are looked up from county and state alone   *)
(* by a lookup that does not raise, and are left to the geocoder.           *)
(***************************************************************************)
\* values a cell of the collaborator's result frame can hold
PyFloat(x) == [t |-> "float", v |-> x]
PyNone == [t |-> "None", v |-> NaN]
PyStr == [t |-> "str", v |-> NaN]

\* the outcome of a Python expression: a value, or an exception
Ret(py) == [exc |-> "none", py |-> py]
Raise(e) == [exc |-> e, py |-> PyNone]

\* a response of ts_model.forecast: kind says what came back, col is the
\* value column of the frame in results[0], cell the column's last value
Resp(kind, col, cell) == [kind |-> kind, col |-> col, cell |-> cell]

NotCalled == Resp("not_called", "", PyNone)

\* forecasting.py 99-115
extract_forecast_value(forecast_result) ==
    IF forecast_result.kind \in {"falsy", "no_results_key", "empty_results"}
    THEN Ret(PyNone)
    ELSE IF forecast_result.kind = "malformed"
    THEN Raise("ValueError")                    \* pd.DataFrame(...) raises
    ELSE IF forecast_result.col = "risk_index"
    THEN IF forecast_result.kind = "no_rows"
         THEN Raise("IndexError")               \* .iloc[-1] of an empty column
         ELSE Ret(forecast_result.cell)
    ELSE IF forecast_result.col \notin {"date", "timestamp"}
    THEN IF forecast_result.kind = "no_rows"
         THEN Raise("IndexError")
         ELSE Ret(forecast_result.cell)
    ELSE Ret(PyNone)

\* Python's max(a, b) with b a float: b when b > a, else a; a comparison
\* with NaN is false, one with None or a string raises TypeError
py_max(a, b) ==
    IF a.t # "float" THEN Raise("TypeError")
    ELSE Ret(PyFloat(IF FLess(a.v, b) THEN b ELSE a.v))

\* original_data.sort_values('date')['risk_index'].iloc[-1]
most_recent_actual(county_data_rows) ==
    {sorted[Len(sorted)].risk_index : sorted \in sort_values(county_data_rows)}

\* an except clause that catches ValueError only
except_ValueError(exc) == exc = "ValueError"

\* `except Exception`: the exceptions of the forecast call, of building the
\* frame, of indexing it and of comparing its value are all Exceptions
except_Exception(exc) == exc \in {"ApiRequestFailure", "ValueError", "IndexError", "TypeError"}

\* predictor.py 176-208: _get_county_coordinates, the state centroid or the
\* centre of the United States
predictor_get_county_coordinates(county, state) ==
    LET state_code == normalize_state_name(state)
    IN  IF state_code.some /\ dict_has(state_centers, state_code.s)
        THEN dict_get(state_centers, state_code.s, US_CENTER)
        ELSE US_CENTER

\* the coordinates an orchestrator gives a county: forecasting.py 163 reads
\* the cached gazetteer lookup, predictor.py 658 the state centroids
coordinates_of(impl, county, state) ==
    IF impl = "forecasting"
    THEN get_county_coordinates(COUNTY_LOOKUP, StrCell(county), StrCell(state))
    ELSE predictor_get_county_coordinates(StrCell(county), StrCell(state))

\* forecasting.py 165-172, predictor.py 660-667
Record(county, state, predicted_risk, coords) ==
    [region |-> title(county) \o Str_CommaSp \o state,
     county |-> county,
     state |-> state,
     risk_score |-> predicted_risk,
     lat |-> coords[1],
     lon |-> coords[2]]

NoRecord == Record(<<>>, <<>>, NaN, <<NaN, NaN>>)

\* what one county's try block comes to: a record, a skip, or an exception
\* that leaves the function
Emit(rec) == [outcome |-> "record", exc |-> "none", record |-> rec]
Skip(e) == [outcome |-> "skip", exc |-> e, record |-> NoRecord]
Propagate(e) == [outcome |-> "raise", exc |-> e, record |-> NoRecord]

Handle(e) == IF except_Exception(e) THEN Skip(e) ELSE Propagate(e)

\* forecasting.py 138-176: the try block of forecast_single_county
forecast_single_county_try(county, state, forecast_result, actual) ==
    IF forecast_result.kind = "raises" THEN Handle("ApiRequestFailure")
    ELSE LET forecasted_value == extract_forecast_value(forecast_result)
         IN  IF forecasted_value.exc # "none" THEN Handle(forecasted_value.exc)
             ELSE IF forecasted_value.py.t = "None" THEN Skip("none")
             ELSE LET predicted_risk == py_max(forecasted_value.py, actual)
                  IN  IF predicted_risk.exc # "none" THEN Handle(predicted_risk.exc)
                      ELSE Emit(Record(county, state, predicted_risk.py.v,
                                       coordinates_of("forecasting", county, state)))

\* predictor.py 598-667: the try block of the loop body and the append
predictor_try(county, state, forecast_result, actual) ==
    IF forecast_result.kind = "raises" THEN Handle("ApiRequestFailure")
    ELSE IF forecast_result.kind \in {"falsy", "no_results_key", "empty_results"}
    THEN Skip("none")
    ELSE IF forecast_result.kind = "malformed" THEN Handle("ValueError")
    ELSE IF forecast_result.col \in {"date", "timestamp"} THEN Skip("none")
    ELSE IF forecast_result.kind = "no_rows" THEN Handle("IndexError")
    ELSE LET predicted_risk == py_max(forecast_result.cell, actual)
         IN  IF predicted_risk.exc # "none" THEN Handle(predicted_risk.exc)
             ELSE Emit(Record(county, state, predicted_risk.py.v,
                              coordinates_of("predictor", county, state)))

\* predictor.py 491-596: the series the loop body prepares (the same steps
\* as prepare_county_time_series, with the cut to the last M rows repeated).
\* There is no return for an empty cleaned series: it is shorter than M, so
\* lines 522-530 take the minimum of no dates (NaT) and pass it to
\* pd.date_range(end=...), which raises ValueError outside the try block
predictor_county_ts(county_data_rows, M) ==
    UNION {
        IF Len(cleaned) = 0 /\ Len(cleaned) < M
        THEN {[called |-> TRUE, cleaned |-> cleaned, augmented |-> <<>>,
               result |-> NoSeries, exc |-> "ValueError"]}
        ELSE LET series == IF Len(cleaned) < M
                           THEN augment_time_series(cleaned, M) ELSE {cleaned}
             IN  {LET cut == IF Len(a) > M THEN tail(a, M) ELSE a
                  IN  [called |-> Len(cleaned) < M, cleaned |-> cleaned,
                       augmented |-> IF Len(cleaned) < M THEN a ELSE <<>>,
                       result |-> IF Len(cut) < M THEN NoSeries
                                  ELSE [ok |-> TRUE,
                                        rows |-> tail(serialize(cut).rows, M)],
                       exc |-> "none"]
                  : a \in series}
        : cleaned \in clean_series(county_data_rows)}

\* forecasting.py 128-132: prepare_county_time_series returns a series or
\* None and raises nothing
forecasting_county_ts(county_data_rows, M) ==
    {[called |-> run.called, cleaned |-> run.cleaned, augmented |-> run.augmented,
      result |-> run.result, exc |-> "none"]
     : run \in prepare_county_time_series(county_data_rows, M)}

\* the series one orchestrator prepares for a county
county_ts_of(impl, county_data_rows, M) ==
    IF impl = "forecasting" THEN forecasting_county_ts(county_data_rows, M)
    ELSE predictor_county_ts(county_data_rows, M)

\* forecasting.py 205-208: getattr(..., None) with the text fallback;
\* predictor.py 469: the attribute itself, AttributeError when the client's
\* TimeSeriesModels does not expose GRANITE_TTM_512_96_R2
model_id(impl, cl) ==
    IF cl = "client_without_model_constant" /\ impl = "predictor"
    THEN Raise("AttributeError")
    ELSE Ret(PyStr)

\* the try block and the append of one orchestrator
county_try(impl, county, state, forecast_result, actual) ==
    IF impl = "forecasting"
    THEN forecast_single_county_try(county, state, forecast_result, actual)
    ELSE predictor_try(county, state, forecast_result, actual)

\* repeated rows are kept (the mutation of drop_duplicates)
keep_duplicates(rows) == rows

\* DataFrame.drop_duplicates(): the first occurrence of each row, in order
drop_duplicates(rows) ==
    LET first == {i \in DOMAIN rows : \A j \in 1..(i - 1) : rows[j] # rows[i]}
    IN  [k \in 1..Cardinality(first) |->
            rows[CHOOSE i \in first : Cardinality({j \in first : j < i}) = k - 1]]

\* the key of every row, repeats kept (the mutation of counties_of)
every_row_key(table) ==
    [i \in DOMAIN table |-> [county |-> table[i].county, state |-> table[i].state]]

\* data[['county', 'state']].drop_duplicates()
counties_of(table) ==
    drop_duplicates([i \in DOMAIN table |->
                        [county |-> table[i].county, state |-> table[i].state]])

\* data[(data['county'] == county) & (data['state'] == state)][['date', 'risk_index']]
county_rows(table, county, state) ==
    LET sel == SelectSeq(table, LAMBDA r : r.county = county /\ r.state = state)
    IN  [i \in DOMAIN sel |-> [date |-> sel[i].date, risk_index |-> sel[i].risk_index]]

\* `not API_KEY or not PROJECT_ID` with only None counted as missing
credentials_missing_only_none(api_key, project_id) ==
    api_key = "None" \/ project_id = "None"

\* `not API_KEY or not PROJECT_ID`: None and the empty string are falsy
credentials_missing(api_key, project_id) ==
    api_key \in {"None", ""} \/ project_id \in {"None", ""}

\* a no-results check that never fires
no_results_never(res) == FALSE

\* `if len(results) == 0: raise RuntimeError`
no_results(res) == Len(res) = 0


(***************************************************************************)
(* Specification SpecForecast: a run of the orchestrator, entered from the *)
(* script (preprocess, initialize the client, forecast, save) or by a      *)
(* caller of forecast_risk_by_county, over a preprocessed table of up to   *)
(* two counties and every kind of collaborator response.                   *)
(***************************************************************************)
MIN_DATA_POINTS == 2      \* the model's minimum series length (512 in the source)


\* the (county, state) keys, in the order preprocess_data sorts them
CountyOrder == <<[county |-> Str_st_clair, state |-> Str_AL],
                 [county |-> Str_st_clair, state |-> Str_IL]>>

\* the month of the earliest observation; the augmenter reaches back
\* MIN_DATA_POINTS months from it
BaseMonth == MIN_DATA_POINTS + 1

SeriesShapes == {"absent", "short", "tied", "long"}

\* one county's rows, ascending by date, with finite risk_index as
\* calculate_risk_index leaves it: a single observation, two observations of
\* the same month end, or more than MIN_DATA_POINTS monthly observations
SeriesOf(shape) ==
    CASE shape = "absent" -> <<>>
      [] shape = "short"  -> <<[date |-> 3 * BaseMonth + 2, risk_index |-> Fin(7, 20)]>>
      [] shape = "unusable" -> <<[date |-> 3 * BaseMonth + 2, risk_index |-> NaN],
                                 [date |-> NaT, risk_index |-> Fin(7, 20)]>>
      [] shape = "tied"   -> <<[date |-> 3 * BaseMonth + 2, risk_index |-> Fin(1, 5)],
                               [date |-> 3 * BaseMonth + 2, risk_index |-> Fin(7, 20)]>>
      [] OTHER            -> [j \in 1..(MIN_DATA_POINTS + 1) |->
                                 [date |-> 3 * (BaseMonth + j - 1),
                                  risk_index |-> IF j % 2 = 1 THEN Fin(1, 5) ELSE Fin(7, 20)]]

RECURSIVE TableFrom(_, _)
TableFrom(shapes, k) ==
    IF k > Len(CountyOrder) THEN <<>>
    ELSE LET ser == SeriesOf(shapes[k])
         IN  [i \in DOMAIN ser |->
                 [county |-> CountyOrder[k].county, state |-> CountyOrder[k].state,
                  date |-> ser[i].date, risk_index |-> ser[i].risk_index]]
             \o TableFrom(shapes, k + 1)

PreprocessedTables ==
    {TableFrom(shapes, 1) : shapes \in [DOMAIN CountyOrder -> SeriesShapes]} \ {<<>>}

ForecastResponses ==
    {Resp(k, "", PyNone) : k \in {"raises", "falsy", "no_results_key", "empty_results",
                                  "malformed"}}
    \cup {Resp("frame", "timestamp", PyStr), Resp("no_rows", "risk_index", PyNone)}
    \cup {Resp("frame", "risk_index", PyFloat(v)) : v \in {NaN, NInf, PInf, Fin(1, 5), Fin(1, 2)}}
    \cup {Resp("frame", "forecast", PyFloat(Fin(1, 2))),
          Resp("frame", "risk_index", PyNone),
          Resp("frame", "risk_index", PyStr)}

OldFile ==
    [exists |-> TRUE,
     rows |-> <<Record(Str_autauga, Str_AL, Fin(1, 10),
                       predictor_get_county_coordinates(StrCell(Str_autauga),
                                                        StrCell(Str_AL)))>>]

ForecastInit ==
    /\ fc_entry \in {"main", "call"}
    /\ fc_impl \in IF fc_entry = "main" THEN {"predictor"} ELSE {"predictor", "forecasting"}
    /\ API_KEY \in {"None", "", "key"}
    /\ PROJECT_ID \in {"None", "", "project"}
    /\ IF fc_entry = "main"
       THEN /\ client = "None"
            /\ data = <<>>
            /\ fc_pc = "preprocess"
            /\ regional_risk_csv \in {NoFile, OldFile}
       ELSE /\ client \in {"None", "client"}
            /\ data \in PreprocessedTables
            /\ fc_pc = "forecast"
            /\ regional_risk_csv = OldFile
    /\ csv_before = regional_risk_csv
    /\ fc_idx = 0
    /\ results = <<>>
    /\ ts_model = FALSE
    /\ fc_log = <<>>
    /\ fc_error = "none"
    /\ save_called = FALSE
    /\ OthersIdle("fc")

\* predictor.py 709: data = preprocess_data(); an exception goes to line 730
MainPreprocess ==
    /\ fc_pc = "preprocess"
    /\ \/ /\ data' \in PreprocessedTables
          /\ fc_pc' = "initialize_client"
          /\ UNCHANGED fc_error
       \/ /\ fc_error' = "FileNotFoundError"
          /\ fc_pc' = "exit"
          /\ UNCHANGED data
    /\ UNCHANGED <<fc_impl, fc_entry, API_KEY, PROJECT_ID, client, fc_idx, results, ts_model,
                   fc_log, save_called, regional_risk_csv, csv_before>>
    /\ OthersUnchanged("fc")

\* predictor.py 714 and 77-101: client = initialize_client()
MainInitializeClient ==
    /\ fc_pc = "initialize_client"
    /\ IF credentials_missing(API_KEY, PROJECT_ID)
       THEN /\ fc_error' = "ValueError"
            /\ fc_pc' = "exit"
            /\ UNCHANGED client
       ELSE \/ /\ client' = "client"
               /\ fc_pc' = "forecast"
               /\ UNCHANGED fc_error
            \/ /\ fc_error' = "WMLClientError"      \* APIClient(...) raises
               /\ fc_pc' = "exit"
               /\ UNCHANGED client
    /\ UNCHANGED <<fc_impl, fc_entry, API_KEY, PROJECT_ID, data, fc_idx, results, ts_model,
                   fc_log, save_called, regional_risk_csv, csv_before>>
    /\ OthersUnchanged("fc")

\* forecasting.py 193-217, predictor.py 454-478: the checks, the model, the
\* list of counties
ForecastEntry ==
    /\ fc_pc = "forecast"
    /\ IF credentials_missing(API_KEY, PROJECT_ID) \/ client = "None"
       THEN /\ fc_error' = "ValueError"
            /\ fc_pc' = "exit"
            /\ UNCHANGED <<ts_model, fc_idx>>
       ELSE IF model_id(fc_impl, client).exc # "none"
       THEN /\ fc_error' = model_id(fc_impl, client).exc
            /\ fc_pc' = "exit"
            /\ UNCHANGED <<ts_model, fc_idx>>
       ELSE /\ ts_model' = TRUE
            /\ fc_idx' = 1
            /\ fc_pc' = "loop"
            /\ UNCHANGED fc_error
    /\ UNCHANGED <<fc_impl, fc_entry, API_KEY, PROJECT_ID, client, data, results, fc_log,
                   save_called, regional_risk_csv, csv_before>>
    /\ OthersUnchanged("fc")

LogEntry(c, submitted, response, actual, out) ==
    [county |-> c.county, state |-> c.state, submitted |-> submitted,
     response |-> response, actual |-> actual, outcome |-> out.outcome,
     exc |-> out.exc, record |-> out.record]

\* forecasting.py 219-232 with forecast_single_county, predictor.py 480-670:
\* one county of the loop
ForecastCounty ==
    /\ fc_pc = "loop"
    /\ fc_idx <= Len(counties_of(data))
    /\ LET c    == counties_of(data)[fc_idx]
           rows == county_rows(data, c.county, c.state)
           runs == county_ts_of(fc_impl, rows, MIN_DATA_POINTS)
       IN  \E run \in runs :
              IF run.exc # "none"
              THEN /\ fc_log' = Append(fc_log,
                                       LogEntry(c, run.result, NotCalled, NaN,
                                                Propagate(run.exc)))
                   /\ fc_error' = run.exc
                   /\ fc_pc' = "exit"
                   /\ UNCHANGED <<results, fc_idx>>
              ELSE IF ~run.result.ok
              THEN /\ fc_log' = Append(fc_log,
                                       LogEntry(c, run.result, NotCalled, NaN, Skip("none")))
                   /\ fc_idx' = fc_idx + 1
                   /\ UNCHANGED <<results, fc_pc, fc_error>>
              ELSE \E forecast_result \in ForecastResponses,
                      actual \in most_recent_actual(rows) :
                      LET out == county_try(fc_impl, c.county, c.state,
                                            forecast_result, actual)
                      IN  /\ fc_log' = Append(fc_log,
                                              LogEntry(c, run.result, forecast_result,
                                                       actual, out))
                          /\ results' = IF out.outcome = "record"
                                        THEN Append(results, out.record) ELSE results
                          /\ IF out.outcome = "raise"
                             THEN /\ fc_error' = out.exc
                                  /\ fc_pc' = "exit"
                                  /\ UNCHANGED fc_idx
                             ELSE /\ fc_idx' = fc_idx + 1
                                  /\ UNCHANGED <<fc_pc, fc_error>>
    /\ UNCHANGED <<fc_impl, fc_entry, API_KEY, PROJECT_ID, client, data, ts_model,
                   save_called, regional_risk_csv, csv_before>>
    /\ OthersUnchanged("fc")

\* forecasting.py 234-240, predictor.py 672-678: after the loop
ForecastFinish ==
    /\ fc_pc = "loop"
    /\ fc_idx > Len(counties_of(data))
    /\ IF no_results(results)
       THEN /\ fc_error' = "RuntimeError"
            /\ fc_pc' = "exit"
       ELSE /\ fc_pc' = IF fc_entry = "main" THEN "save" ELSE "exit"
            /\ UNCHANGED fc_error
    /\ UNCHANGED <<fc_impl, fc_entry, API_KEY, PROJECT_ID, client, data, fc_idx, results,
                   ts_model, fc_log, save_called, regional_risk_csv, csv_before>>
    /\ OthersUnchanged("fc")

\* predictor.py 724 and 684-698: save_results(forecast_results)
MainSaveResults ==
    /\ fc_pc = "save"
    /\ save_called' = TRUE
    /\ regional_risk_csv' = [exists |-> TRUE, rows |-> results]
    /\ fc_pc' = "exit"
    /\ UNCHANGED <<fc_impl, fc_entry, API_KEY, PROJECT_ID, client, data, fc_idx, results,
                   ts_model, fc_log, fc_error, csv_before>>
    /\ OthersUnchanged("fc")

ForecastNext ==
    \/ MainPreprocess
    \/ MainInitializeClient
    \/ ForecastEntry
    \/ ForecastCounty
    \/ ForecastFinish
    \/ MainSaveResults

SpecForecast == ForecastInit /\ [][ForecastNext]_vars


\* C4 (stated as in the spec; the model refutes it): every record emitted
\* carries a risk_score that is the larger of the forecasted value and the
\* county's most recent observed risk_index, and so is never lower than the
\* most recent observed risk_index, whatever last-period value the
\* collaborator returned (not-a-number and infinities included).
C4_RiskScoreIsMaxNeverBelowActual ==
    \A i \in DOMAIN fc_log :
        fc_log[i].outcome = "record" =>
            /\ fc_log[i].record.risk_score \in {fc_log[i].response.cell.v, fc_log[i].actual}
            /\ FLeq(fc_log[i].actual, fc_log[i].record.risk_score)
            /\ FLeq(fc_log[i].response.cell.v, fc_log[i].record.risk_score)

\* C7: when no county produced a record, forecast_risk_by_county ends with
\* the no-results RuntimeError, save_results is never called and
\* regional_risk.csv is as it was before the run.
C7_NoResultsRaisesAndWritesNothing ==
    /\ (fc_pc \in {"save", "exit"} /\ ts_model /\ results = <<>>) =>
           fc_error = "RuntimeError"
    /\ results = <<>> => (~save_called /\ regional_risk_csv = csv_before)

\* C7 witness: the script's run ended on the no-results error after the
\* collaborator returned an empty result set for each of two counties, with
\* an output file of an earlier run in place.
C7_Witness ==
    /\ fc_pc = "exit"
    /\ fc_entry = "main"
    /\ fc_error = "RuntimeError"
    /\ Len(fc_log) = 2
    /\ \A i \in DOMAIN fc_log : fc_log[i].response.kind = "empty_results"
    /\ csv_before = OldFile

\* the counties of the log whose forecast call, extraction or reconciliation
\* raised
FailedKeys == {[county |-> fc_log[i].county, state |-> fc_log[i].state] :
                  i \in {j \in DOMAIN fc_log : fc_log[j].exc # "none"}}

\* the table without the rows of the counties that failed
DataWithoutFailed ==
    SelectSeq(data, LAMBDA r : [county |-> r.county, state |-> r.state] \notin FailedKeys)

\* the records a county can get from a response when only its own rows count
RecordsAlone(table, county, state, response) ==
    {Record(county, state, py_max(response.cell, a).py.v,
            coordinates_of(fc_impl, county, state)) :
        a \in most_recent_actual(county_rows(table, county, state))}

RECURSIVE RecordsOf(_)
RecordsOf(log) ==
    IF log = <<>> THEN <<>>
    ELSE (IF Head(log).outcome = "record" THEN <<Head(log).record>> ELSE <<>>)
         \o RecordsOf(Tail(log))

\* C8: an exception raised by the forecast call, or by extracting or
\* reconciling its result, makes that county a skip without a record: no
\* exception leaves forecast_risk_by_county from a county, every county of
\* the table is handled, and the records are those of the other counties,
\* each the one it gets from its own rows and response in the table without
\* the failed counties.
C8_CountyFailureIsASkip ==
    /\ \A i \in DOMAIN fc_log :
          /\ fc_log[i].outcome # "raise"
          /\ fc_log[i].exc # "none" => fc_log[i].outcome = "skip"
          /\ fc_log[i].outcome = "record" =>
                fc_log[i].record \in RecordsAlone(DataWithoutFailed, fc_log[i].county,
                                                  fc_log[i].state, fc_log[i].response)
    /\ results = RecordsOf(fc_log)
    /\ (fc_pc \in {"save", "exit"} /\ ts_model) =>
          /\ Len(fc_log) = Len(counties_of(data))
          /\ fc_error \in {"none", "RuntimeError"}

\* C8 witness: the first county's forecast raised, the second county was
\* still handled and got its record, and the function returned.
C8_Witness ==
    /\ fc_pc = "exit"
    /\ fc_impl = "forecasting"
    /\ fc_error = "none"
    /\ Len(fc_log) = 2
    /\ fc_log[1].exc \in {"ApiRequestFailure", "IndexError", "TypeError"}
    /\ fc_log[2].outcome = "record"
    /\ Len(results) = 1

ForecastSucceeded(entry) ==
    /\ entry.submitted.ok
    /\ entry.response.kind # "raises"
    /\ extract_forecast_value(entry.response).exc = "none"
    /\ extract_forecast_value(entry.response).py.t = "float"

PairOf(r) == [county |-> r.county, state |-> r.state]

\* C17: the table forecast_risk_by_county returns has exactly one row for
\* each distinct (county, state) of the input whose forecast succeeded and
\* none for a county that was skipped; no pair is in two rows; every row has
\* the six fields region, county, state, risk_score, lat, lon, and region is
\* the title-cased county, ", " and the state.
C17_OneRowPerForecastCounty ==
    (fc_pc = "exit" /\ fc_impl = "forecasting" /\ fc_error = "none" /\ ts_model) =>
        /\ \A i, j \in DOMAIN results : PairOf(results[i]) = PairOf(results[j]) => i = j
        /\ {PairOf(results[i]) : i \in DOMAIN results}
              = {p \in {PairOf(data[i]) : i \in DOMAIN data} :
                    \E k \in DOMAIN fc_log :
                        PairOf(fc_log[k]) = p /\ ForecastSucceeded(fc_log[k])}
        /\ \A i \in DOMAIN results :
              /\ DOMAIN results[i] = {"region", "county", "state", "risk_score", "lat", "lon"}
              /\ results[i].region
                    = title(results[i].county) \o <<44, 32>> \o results[i].state

\* C17 witness: a table of two counties with several rows each; the first
\* county was skipped, the second was forecast, and the returned table has
\* the one row "St. Clair, IL".
C17_Witness ==
    /\ fc_pc = "exit"
    /\ fc_impl = "forecasting"
    /\ fc_error = "none"
    /\ Len(data) > 2
    /\ Len(fc_log) = 2
    /\ ~ForecastSucceeded(fc_log[1])
    /\ ForecastSucceeded(fc_log[2])
    /\ Len(results) = 1
    /\ results[1].region = <<83, 116, 46, 32, 67, 108, 97, 105, 114, 44, 32, 73, 76>>


(***************************************************************************)
(* Specification SpecBatch: the orchestrators on any table a caller can    *)
(* pass (a county may have no usable row), with a client whose             *)
(* TimeSeriesModels may lack the model constant.  The interpreter keeps    *)
(* running the one thread of the program and every forecast call returns   *)
(* or raises, hence weak fairness of the next step.                        *)
(***************************************************************************)
\* a county is absent, has rows none of which is usable, has one observation,
\* or has more than MIN_DATA_POINTS
BatchShapes == {"absent", "unusable", "short", "long"}

BatchTables ==
    {TableFrom(shapes, 1) : shapes \in [DOMAIN CountyOrder -> BatchShapes]} \ {<<>>}

Clients == {"None", "client", "client_without_model_constant"}

BatchInit ==
    /\ fc_entry \in {"main", "call"}
    /\ fc_impl \in IF fc_entry = "main" THEN {"predictor"} ELSE {"predictor", "forecasting"}
    /\ API_KEY \in {"", "key"}
    /\ PROJECT_ID = "project"
    /\ IF fc_entry = "main"
       THEN /\ client = "None"
            /\ data = <<>>
            /\ fc_pc = "preprocess"
            /\ regional_risk_csv = NoFile
       ELSE /\ client \in Clients
            /\ data \in BatchTables
            /\ fc_pc = "forecast"
            /\ regional_risk_csv = OldFile
    /\ csv_before = regional_risk_csv
    /\ fc_idx = 0
    /\ results = <<>>
    /\ ts_model = FALSE
    /\ fc_log = <<>>
    /\ fc_error = "none"
    /\ save_called = FALSE
    /\ OthersIdle("fc")

SpecBatch == BatchInit /\ [][ForecastNext]_vars /\ WF_vars(ForecastNext)

\* no row of the county survives the cleaning of lines 63-75
ZeroValidPoints(table, c) ==
    \A cleaned \in clean_series(county_rows(table, c.county, c.state)) : Len(cleaned) = 0

\* C29: forecast_risk_by_county of models/forecasting.py handles each
\* distinct (county, state) of the table exactly once and in the table's
\* order; each county handled ends as a record or as a skip; the forecast is
\* requested only for a county whose series was prepared, never for one with
\* zero valid observed points, and the log holds one response per county;
\* the records are those of the counties that ended as a record; and every
\* batch comes to its end, with all counties handled and either a non-empty
\* result table or the no-results error.
C29_EachCountyOnceBatchTerminates ==
    /\ [](fc_impl = "forecasting" =>
            /\ Len(fc_log) <= Len(counties_of(data))
            /\ fc_pc = "loop" => Len(fc_log) = fc_idx - 1
            /\ \A i \in DOMAIN fc_log :
                  /\ PairOf(fc_log[i]) = counties_of(data)[i]
                  /\ \A j \in DOMAIN fc_log :
                        PairOf(fc_log[i]) = PairOf(fc_log[j]) => i = j
                  /\ fc_log[i].outcome \in {"record", "skip"}
                  /\ fc_log[i].response # NotCalled => fc_log[i].submitted.ok
                  /\ ZeroValidPoints(data, PairOf(fc_log[i])) =>
                        /\ fc_log[i].response = NotCalled
                        /\ fc_log[i].outcome = "skip"
            /\ results = RecordsOf(fc_log)
            /\ (fc_pc = "exit" /\ ts_model) =>
                  /\ Len(fc_log) = Len(counties_of(data))
                  /\ {PairOf(fc_log[i]) : i \in DOMAIN fc_log}
                        = {PairOf(data[i]) : i \in DOMAIN data}
                  /\ \/ fc_error = "none" /\ results # <<>>
                     \/ fc_error = "RuntimeError" /\ results = <<>>)
    /\ (fc_pc = "loop") ~> (fc_pc = "exit")

\* C29 witness: a finished batch of forecasting.py over two counties; the
\* first has rows but no valid point and was skipped without a forecast
\* call, the second was forecast once and gave the one record returned.
C29_Witness ==
    /\ fc_impl = "forecasting"
    /\ fc_pc = "exit"
    /\ fc_error = "none"
    /\ Len(fc_log) = 2
    /\ ZeroValidPoints(data, PairOf(fc_log[1]))
    /\ fc_log[1].response = NotCalled
    /\ fc_log[2].outcome = "record"
    /\ Len(results) = 1

\* the fields of a record the two orchestrators are compared on
RiskRecord(r) ==
    [region |-> r.region, county |-> r.county, state |-> r.state,
     risk_score |-> r.risk_score]

\* what an orchestrator can do with one county of a table when the forecast
\* call, if it is made, has the given response: the series submitted, how
\* the county ends, and the record without its coordinates
CountyOutcomes(impl, table, c, response) ==
    LET rows == county_rows(table, c.county, c.state)
    IN  UNION {
            IF run.exc # "none"
            THEN {[submitted |-> run.result, outcome |-> "raise",
                   record |-> RiskRecord(NoRecord)]}
            ELSE IF ~run.result.ok
            THEN {[submitted |-> run.result, outcome |-> "skip",
                   record |-> RiskRecord(NoRecord)]}
            ELSE {LET out == county_try(impl, c.county, c.state, response, actual)
                  IN  [submitted |-> run.result, outcome |-> out.outcome,
                       record |-> RiskRecord(out.record)]
                  : actual \in most_recent_actual(rows)}
            : run \in county_ts_of(impl, rows, MIN_DATA_POINTS)}

\* the exception the checks and the model set-up raise before the loop
entry_error(impl, api_key, project_id, cl) ==
    IF credentials_missing(api_key, project_id) \/ cl = "None" THEN "ValueError"
    ELSE model_id(impl, cl).exc

\* C30 (stated as in the spec; the model refutes it): on the same table,
\* client and responses the orchestrator of models/forecasting.py and the
\* one of models/predictor.py do the same: they pass or fail the set-up
\* alike, and for every county handled they submit the same series, end the
\* county alike (record, skip) and emit the same region, county, state and
\* risk_score.
C30_OrchestratorsEquivalent ==
    /\ ((fc_entry = "call" /\ fc_pc # "forecast") \/ ts_model) =>
          entry_error("forecasting", API_KEY, PROJECT_ID, client)
             = entry_error("predictor", API_KEY, PROJECT_ID, client)
    /\ \A i \in DOMAIN fc_log :
          CountyOutcomes("forecasting", data, PairOf(fc_log[i]), fc_log[i].response)
             = CountyOutcomes("predictor", data, PairOf(fc_log[i]), fc_log[i].response)


(***************************************************************************)
(* utils/helpers.py read_csv_flexible and models/predictor.py              *)
(* _read_csv_flexible.  A file is a sequence of bytes, a decoded table the *)
(* sequence of its code points.                                            *)
(***************************************************************************)
Decoded(text) == [ok |-> TRUE, text |-> text]
UnicodeDecodeError == [ok |-> FALSE, text |-> <<>>]

IsContinuation(b) == b \in 128..191

RECURSIVE utf8_decode(_, _)
\* bytes.decode('utf-8', errors): one-byte characters and the two-byte
\* characters led by 0xC2..0xDF; any other byte is an error, replaced by
\* U+FFFD (65533) when errors = "replace"
utf8_decode(bytes, errors) ==
    IF bytes = <<>> THEN Decoded(<<>>)
    ELSE LET b == Head(bytes)
             two == b \in 194..223 /\ Len(bytes) >= 2 /\ IsContinuation(bytes[2])
             rest == utf8_decode(IF two THEN Tail(Tail(bytes)) ELSE Tail(bytes), errors)
         IN  IF b < 128 THEN (IF rest.ok THEN Decoded(<<b>> \o rest.text) ELSE rest)
             ELSE IF two
             THEN (IF rest.ok
                   THEN Decoded(<<64 * (b - 192) + (bytes[2] - 128)>> \o rest.text)
                   ELSE rest)
             ELSE IF errors = "replace"
             THEN (IF rest.ok THEN Decoded(<<65533>> \o rest.text) ELSE rest)
             ELSE UnicodeDecodeError

\* the bytes cp1252 leaves undefined
cp1252_undefined == {129, 141, 143, 144, 157}

\* cp1252 of the bytes 0x80..0x9F used here: 0x93 is U+201C, 0x94 U+201D
cp1252_char(b) ==
    IF b = 147 THEN 8220 ELSE IF b = 148 THEN 8221 ELSE b

cp1252_decode(bytes) ==
    IF \E i \in DOMAIN bytes : bytes[i] \in cp1252_undefined THEN UnicodeDecodeError
    ELSE Decoded([i \in DOMAIN bytes |-> cp1252_char(bytes[i])])

\* latin-1 (iso-8859-1): every byte is its own code point
latin1_decode(bytes) == Decoded(bytes)

decode(bytes, encoding) ==
    CASE encoding = "utf-8"      -> utf8_decode(bytes, "strict")
      [] encoding = "utf-8-sig"  -> utf8_decode(bytes, "strict")
      [] encoding = "cp1252"     -> cp1252_decode(bytes)
      [] encoding = "latin-1"    -> latin1_decode(bytes)
      [] encoding = "iso-8859-1" -> latin1_decode(bytes)

\* pd.read_csv(path, encoding=...): the exception, or the decoded table
read_csv(file, encoding) ==
    IF ~file.exists THEN [exc |-> "FileNotFoundError", encoding |-> encoding, text |-> <<>>]
    ELSE IF ~decode(file.bytes, encoding).ok
    THEN [exc |-> "UnicodeDecodeError", encoding |-> encoding, text |-> <<>>]
    ELSE IF file.bytes = <<>>
    THEN [exc |-> "EmptyDataError", encoding |-> encoding, text |-> <<>>]
    ELSE [exc |-> "none", encoding |-> encoding, text |-> decode(file.bytes, encoding).text]

\* helpers.py 23
helpers_encodings == <<"utf-8", "latin-1", "iso-8859-1", "cp1252">>

\* predictor.py 108, constants.py 36
CSV_ENCODINGS == <<"utf-8", "utf-8-sig", "cp1252", "latin-1">>

RECURSIVE try_encodings(_, _, _)
\* the loop over the encodings: the first outcome that is not a
\* UnicodeDecodeError, or "exhausted"
try_encodings(file, encodings, i) ==
    IF i > Len(encodings) THEN [exc |-> "exhausted", encoding |-> "", text |-> <<>>]
    ELSE IF read_csv(file, encodings[i]).exc = "UnicodeDecodeError"
    THEN try_encodings(file, encodings, i + 1)
    ELSE read_csv(file, encodings[i])

\* helpers.py 12-33; the final read_csv is handed errors='replace', which is
\* not a parameter of read_csv
read_csv_flexible(file) ==
    LET tried == try_encodings(file, helpers_encodings, 1)
    IN  IF tried.exc # "exhausted" THEN tried
        ELSE [exc |-> "TypeError", encoding |-> "utf-8", text |-> <<>>]

\* predictor.py 106-128
predictor_read_csv_flexible(file) ==
    LET tried == try_encodings(file, CSV_ENCODINGS, 1)
    IN  IF tried.exc # "exhausted" THEN tried
        ELSE IF ~file.exists \/ file.bytes = <<>>
        THEN [exc |-> "UnicodeDecodeError", encoding |-> "utf-8", text |-> <<>>]
        ELSE [exc |-> "none", encoding |-> "utf-8",
              text |-> utf8_decode(file.bytes, "replace").text]

(***************************************************************************)
(* Specification SpecCsv: one call of a CSV reader on a missing file or on *)
(* a file of a few bytes.                                                  *)
(***************************************************************************)
MaxFileBytes == 3     \* most bytes of a file

\* "A", 0x81 (undefined in cp1252), 0x93 (a curly quote in cp1252), 0xC3 and
\* 0xA9 (together the UTF-8 of U+00E9)
FileBytes == {65, 129, 147, 195, 169}

CsvFiles ==
    {[exists |-> FALSE, bytes |-> <<>>]}
    \cup {[exists |-> TRUE, bytes |-> b] :
             b \in UNION {[1..n -> FileBytes] : n \in 0..MaxFileBytes}}

CsvInit ==
    /\ csv_reader \in {"helpers", "predictor"}
    /\ csv_file \in CsvFiles
    /\ csv_pc = "start"
    /\ csv_out = [exc |-> "none", encoding |-> "", text |-> <<>>]
    /\ OthersIdle("csv")

ReadCsvFlexible ==
    /\ csv_pc = "start"
    /\ csv_out' = IF csv_reader = "helpers" THEN read_csv_flexible(csv_file)
                  ELSE predictor_read_csv_flexible(csv_file)
    /\ csv_pc' = "done"
    /\ UNCHANGED <<csv_reader, csv_file>>
    /\ OthersUnchanged("csv")

CsvNext == ReadCsvFlexible

SpecCsv == CsvInit /\ [][CsvNext]_vars

\* the encodings in the order the claim gives them
ClaimedEncodings == <<"utf-8", "utf-8-sig", "cp1252", "latin-1", "iso-8859-1">>

FirstDecoding(bytes) ==
    LET good == {i \in DOMAIN ClaimedEncodings : decode(bytes, ClaimedEncodings[i]).ok}
    IN  IF good = {} THEN utf8_decode(bytes, "replace").text
        ELSE decode(bytes, ClaimedEncodings[CHOOSE i \in good : \A j \in good : i <= j]).text

\* C19 (as claimed): read_csv_flexible tries utf-8, utf-8-sig, cp1252,
\* latin-1, iso-8859-1 in that order and returns the table decoded with the
\* first of them that decodes the file (UTF-8 with replacement characters
\* when none does); it raises only when the file cannot be opened.
C19_FirstEncodingInOrder ==
    csv_pc = "done" =>
        IF csv_file.exists
        THEN csv_out.exc = "none" /\ csv_out.text = FirstDecoding(csv_file.bytes)
        ELSE csv_out.exc # "none"


(***************************************************************************)
(* Specification SpecNum: a numeric cleaner applied to one cell.           *)
(***************************************************************************)
CellPrefixes == {<<>>, <<36>>, <<32>>, <<32, 36>>}     \* "", "$", " ", " $"

CellSuffixes == {<<>>, <<32>>}                         \* "", " "

CellBodies == {
    <<>>,   \* ""
    <<49, 50, 48, 48>>,   \* "1200"
    <<49, 44, 50, 48, 48>>,   \* "1,200"
    <<49, 50, 46, 53>>,   \* "12.5"
    <<45, 51>>,   \* "-3"
    <<97, 98, 99>>,   \* "abc"
    <<110, 97, 110>>,   \* "nan"
    <<78, 111, 110, 101>>,   \* "None"
    <<110, 117, 108, 108>>,   \* "null"
    <<49, 44, 50, 44, 51>>   \* "1,2,3"
}

NumericCells ==
    {StrCell(a \o b \o c) : a \in CellPrefixes, b \in CellBodies, c \in CellSuffixes}
    \cup {NoneCell, NumCell(NaN), NumCell(Num(1200)), NumCell(Fin(25, 2)), NumCell(PInf)}

NumInit ==
    /\ num_fn \in {"helpers", "predictor"}
    /\ num_cell \in NumericCells
    /\ num_pc = "start"
    /\ num_out = NaN
    /\ OthersIdle("num")

CleanNumericColumn ==
    /\ num_pc = "start"
    /\ num_out' = IF num_fn = "helpers" THEN clean_numeric_column(num_cell)
                  ELSE predictor_clean_numeric_column(num_cell)
    /\ num_pc' = "done"
    /\ UNCHANGED <<num_fn, num_cell>>
    /\ OthersUnchanged("num")

NumNext == CleanNumericColumn

SpecNum == NumInit /\ [][NumNext]_vars

\* the text of a cell without "," and "$", trimmed
Remainder(cell) == strip(remove_char(remove_char(astype_str(cell), 44), 36))

\* C20 (as claimed): for every cell, clean_numeric_column returns the number
\* left after removing "," and "$" and trimming whitespace when that
\* remainder is numeric ("$1,200" gives 1200), NaN for "", "nan", "None" and
\* "null", and NaN for any other remainder; it never raises.
C20_CleanedNumber ==
    num_pc = "done" =>
        num_out = IF num_cell.t = "num" THEN num_cell.f
                  ELSE IF Remainder(num_cell) \in {<<>>, Str_nan, Str_None, Str_null} THEN NaN
                  ELSE to_numeric(Remainder(num_cell))


(***************************************************************************)
(* The presentation layer: Dashboard.load_heatmap (main.py) and            *)
(* DashboardWidget (ui/dashboard.py) read regional_risk.csv when they are  *)
(* constructed.  A file is the set of its columns (empty for a file with   *)
(* no header) and its rows; a risk_score cell is a number, NaN where the   *)
(* cell is empty, or text.                                                 *)
(***************************************************************************)
\* pd.read_csv(path): the exception it raises, "none" if it returns a table
ui_read_csv(file) ==
    IF ~file.exists THEN "FileNotFoundError"
    ELSE IF file.columns = {} THEN "EmptyDataError"
    ELSE "none"

\* pd.to_numeric(column, errors='coerce') of one cell
coerce_cell(cell) == IF cell.t = "str" THEN to_numeric(cell.s) ELSE cell.f

\* data[['lat', 'lon', 'risk_score']].dropna() after the coercion
heatmap_data(rows) ==
    SelectSeq(rows, LAMBDA r : ~IsNaN(r.lat) /\ ~IsNaN(r.lon)
                               /\ ~IsNaN(coerce_cell(r.risk_score)))

\* main.py Dashboard.load_heatmap: what the map view shows, and the exception
\* that leaves the method
load_heatmap(file) ==
    IF ui_read_csv(file) # "none" THEN [view |-> "error_marker", exc |-> "none"]
    ELSE IF ~({"lat", "lon", "risk_score"} \subseteq file.columns)
    THEN [view |-> "error_marker", exc |-> "none"]      \* KeyError, caught
    ELSE IF Len(heatmap_data(file.rows)) = 0
    THEN [view |-> "no_data_marker", exc |-> "none"]
    ELSE [view |-> "heatmap", exc |-> "none"]

\* ui/dashboard.py DashboardWidget.load_data: the exception it raises
load_data(file) ==
    IF ui_read_csv(file) # "none" THEN ui_read_csv(file)
    ELSE IF ~({"region", "risk_score"} \subseteq file.columns) THEN "ValueError"
    ELSE "none"

\* DashboardWidget.create_heatmap: no lat or lon column is a ValueError; folium's
\* HeatMap rejects a NaN among its values (ValueError) and text (TypeError)
create_heatmap(file) ==
    IF ~({"lat", "lon"} \subseteq file.columns) THEN "ValueError"
    ELSE IF \E i \in DOMAIN file.rows : file.rows[i].risk_score.t = "str" THEN "TypeError"
    ELSE IF \E i \in DOMAIN file.rows :
                IsNaN(file.rows[i].lat) \/ IsNaN(file.rows[i].lon)
                \/ IsNaN(file.rows[i].risk_score.f)
    THEN "ValueError"
    ELSE "none"

\* DashboardWidget.update_summary: idxmax of an empty column is a ValueError
update_summary(file) == IF Len(file.rows) = 0 THEN "ValueError" ELSE "none"

\* DashboardWidget.refresh_data, called by __init__: nothing catches what
\* load_data, create_heatmap or update_summary raise
refresh_data(file) ==
    IF load_data(file) # "none" THEN [view |-> "blank", exc |-> load_data(file)]
    ELSE IF create_heatmap(file) # "none" THEN [view |-> "blank", exc |-> create_heatmap(file)]
    ELSE IF update_summary(file) # "none"
    THEN [view |-> "heatmap", exc |-> update_summary(file)]
    ELSE [view |-> "heatmap", exc |-> "none"]

(***************************************************************************)
(* Specification SpecUi: one start-up of either widget on a missing file,  *)
(* a file without a header, or a file of up to MaxUiRows rows.             *)
(***************************************************************************)
MaxUiRows == 2     \* most rows of regional_risk.csv

UiColumnSets ==
    {{"region", "risk_score", "lat", "lon"}, {"region", "lat", "lon"},
     {"risk_score", "lat", "lon"}, {"region", "risk_score"}}

UiRows ==
    {[region |-> Str_autauga, risk_score |-> c, lat |-> l[1], lon |-> l[2]] :
        c \in {NumCell(Fin(1, 2)), NumCell(NaN), StrCell(<<97, 98, 99>>)},
        l \in {<<Num(32), Num(-86)>>}}
    \cup {[region |-> Str_autauga, risk_score |-> NumCell(Fin(1, 2)),
           lat |-> NaN, lon |-> NaN]}

UiFiles ==
    {[exists |-> FALSE, columns |-> {}, rows |-> <<>>],
     [exists |-> TRUE, columns |-> {}, rows |-> <<>>]}
    \cup {[exists |-> TRUE, columns |-> c, rows |-> r] :
             c \in UiColumnSets, r \in UNION {[1..n -> UiRows] : n \in 0..MaxUiRows}}

UiInit ==
    /\ ui_impl \in {"main", "dashboard"}
    /\ ui_file \in UiFiles
    /\ ui_pc = "start"
    /\ ui_view = "blank"
    /\ ui_exc = "none"
    /\ OthersIdle("ui")

\* the widget is constructed: Dashboard.__init__ calls load_heatmap,
\* DashboardWidget.__init__ calls refresh_data
StartUp ==
    /\ ui_pc = "start"
    /\ LET out == IF ui_impl = "main" THEN load_heatmap(ui_file) ELSE refresh_data(ui_file)
       IN  /\ ui_view' = out.view
           /\ ui_exc' = out.exc
    /\ ui_pc' = "done"
    /\ UNCHANGED <<ui_impl, ui_file>>
    /\ OthersUnchanged("ui")

UiNext == StartUp

SpecUi == UiInit /\ [][UiNext]_vars

\* the file is missing, has no header, or has no row with a numeric risk_score
NoValidRiskScore(file) ==
    \/ ~file.exists
    \/ file.columns = {}
    \/ "risk_score" \notin file.columns
    \/ \A i \in DOMAIN file.rows : IsNaN(coerce_cell(file.rows[i].risk_score))

\* C21 (as claimed): whenever regional_risk.csv is missing, empty or has no
\* row with a valid numeric risk_score after coercion, both widgets finish
\* start-up showing a fallback message marker, and start-up never ends with an
\* unhandled exception.
C21_FallbackMarkerNoCrash ==
    (ui_pc = "done" /\ NoValidRiskScore(ui_file)) =>
        /\ ui_exc = "none"
        /\ ui_view \in {"no_data_marker", "error_marker"}


(***************************************************************************)
(* utils/geocode.py: the module-level cache _COUNTY_LOOKUP and             *)
(* _load_county_lookup, one statement at a time so that calls made from    *)
(* several threads can interleave.  A dict is known by its index in        *)
(* `dicts` (its identity) and holds its entries in insertion order;        *)
(* `complete` and `published` record, for the claims, that its builder has *)
(* finished and that it was assigned to the cache.                         *)
(***************************************************************************)
Callers == {1, 2}

NewDict == [entries |-> <<>>, complete |-> FALSE, published |-> FALSE]

AtRest == [pc |-> "idle", lookup |-> 0, rows |-> <<>>]

\* a cache test that takes an empty dict for no dict (`if _COUNTY_LOOKUP:`)
cache_hit_if_truthy(cache, all) == cache # 0 /\ all[cache].entries # <<>>

\* lines 90-91: `if _COUNTY_LOOKUP is not None`
cache_hit(cache, all) == cache # 0

\* a loader that binds the module-level cache to the dict it has just created
cache_bound_at_creation(cache, new) == new

\* line 95: `lookup = {}` binds a local name, the cache is left as it is
cache_after_creation(cache, new) == cache

\* lines 153-156, 203-206: the key is inserted unless the dict has it
insert(entries, row) ==
    IF \E i \in DOMAIN entries :
           entries[i].county = row.county /\ entries[i].state = row.state
    THEN entries
    ELSE Append(entries, row)

(***************************************************************************)
(* Specifications SpecLoadSeq and SpecLoadConc: up to MaxCalls calls of    *)
(* get_county_coordinates by two threads, one call at a time or            *)
(* interleaved, while the gazetteer file may be replaced.                  *)
(***************************************************************************)
MaxCalls == 3          \* most calls of get_county_coordinates in a run
MaxFileChanges == 1    \* most replacements of the file in a run

GazFiles ==
    {[readable |-> FALSE, rows |-> <<>>]}
    \cup {[readable |-> TRUE, rows |-> g] : g \in Gazetteers}

LoadInit(mode) ==
    /\ load_mode = mode
    /\ gaz_file \in GazFiles
    /\ dicts = <<>>
    /\ lookup_cache = 0
    /\ caller = [t \in Callers |-> AtRest]
    /\ file_reads = 0
    /\ file_changes = 0
    /\ calls = 0
    /\ consulted = <<>>
    /\ OthersIdle("load")

\* a thread calls get_county_coordinates with a recognized state and a county
Call(t) ==
    /\ caller[t].pc = "idle"
    /\ calls < MaxCalls
    /\ load_mode = "concurrent" \/ \A u \in Callers : caller[u].pc = "idle"
    /\ calls' = calls + 1
    /\ caller' = [caller EXCEPT ![t].pc = "check"]
    /\ UNCHANGED <<load_mode, gaz_file, dicts, lookup_cache, file_reads, file_changes,
                   consulted>>
    /\ OthersUnchanged("load")

\* lines 89-91
CheckCache(t) ==
    /\ caller[t].pc = "check"
    /\ caller' = IF cache_hit(lookup_cache, dicts)
                 THEN [caller EXCEPT ![t].pc = "consult", ![t].lookup = lookup_cache]
                 ELSE [caller EXCEPT ![t].pc = "read"]
    /\ UNCHANGED <<load_mode, gaz_file, dicts, lookup_cache, file_reads, file_changes,
                   calls, consulted>>
    /\ OthersUnchanged("load")

\* lines 94-125: a new dict, then the file is read; when neither pandas nor the
\* csv module can read it the empty dict is cached and returned
ReadFile(t) ==
    /\ caller[t].pc = "read"
    /\ file_reads' = file_reads + 1
    /\ LET new == Len(dicts) + 1
       IN  IF gaz_file.readable
           THEN /\ dicts' = Append(dicts, NewDict)
                /\ lookup_cache' = cache_after_creation(lookup_cache, new)
                /\ caller' = [caller EXCEPT ![t] = [pc |-> "fill", lookup |-> new,
                                                    rows |-> gaz_file.rows]]
           ELSE /\ dicts' = Append(dicts, [entries |-> <<>>, complete |-> TRUE,
                                            published |-> TRUE])
                /\ lookup_cache' = new
                /\ caller' = [caller EXCEPT ![t] = [pc |-> "consult", lookup |-> new,
                                                    rows |-> <<>>]]
    /\ UNCHANGED <<load_mode, gaz_file, file_changes, calls, consulted>>
    /\ OthersUnchanged("load")

\* lines 130-156, 165-206: one row of the file goes into the local dict
InsertRow(t) ==
    /\ caller[t].pc = "fill"
    /\ caller[t].rows # <<>>
    /\ dicts' = [dicts EXCEPT ![caller[t].lookup].entries = insert(@, Head(caller[t].rows))]
    /\ caller' = [caller EXCEPT ![t].rows = Tail(@)]
    /\ UNCHANGED <<load_mode, gaz_file, lookup_cache, file_reads, file_changes, calls,
                   consulted>>
    /\ OthersUnchanged("load")

\* lines 208-209: the local dict is assigned to the cache and returned
Publish(t) ==
    /\ caller[t].pc = "fill"
    /\ caller[t].rows = <<>>
    /\ dicts' = [dicts EXCEPT ![caller[t].lookup].complete = TRUE,
                              ![caller[t].lookup].published = TRUE]
    /\ lookup_cache' = caller[t].lookup
    /\ caller' = [caller EXCEPT ![t].pc = "consult"]
    /\ UNCHANGED <<load_mode, gaz_file, file_reads, file_changes, calls, consulted>>
    /\ OthersUnchanged("load")

\* get_county_coordinates lines 248-258: the dict the loader returned is searched
Consult(t) ==
    /\ caller[t].pc = "consult"
    /\ consulted' = Append(consulted, [dict |-> caller[t].lookup,
                                       entries |-> dicts[caller[t].lookup].entries,
                                       complete |-> dicts[caller[t].lookup].complete])
    /\ caller' = [caller EXCEPT ![t] = AtRest]
    /\ UNCHANGED <<load_mode, gaz_file, dicts, lookup_cache, file_reads, file_changes,
                   calls>>
    /\ OthersUnchanged("load")

\* the environment replaces uscounties.csv
ReplaceFile ==
    /\ file_changes < MaxFileChanges
    /\ file_changes' = file_changes + 1
    /\ \E f \in GazFiles : f # gaz_file /\ gaz_file' = f
    /\ UNCHANGED <<load_mode, dicts, lookup_cache, caller, file_reads, calls, consulted>>
    /\ OthersUnchanged("load")

LoadNext ==
    \/ \E t \in Callers : Call(t)
    \/ \E t \in Callers : CheckCache(t)
    \/ \E t \in Callers : ReadFile(t)
    \/ \E t \in Callers : InsertRow(t)
    \/ \E t \in Callers : Publish(t)
    \/ \E t \in Callers : Consult(t)
    \/ ReplaceFile

SpecLoadSeq == LoadInit("sequential") /\ [][LoadNext]_vars

SpecLoadConc == LoadInit("concurrent") /\ [][LoadNext]_vars

C28_NoPartialTableConsulted ==
    /\ [](/\ lookup_cache # 0 => dicts[lookup_cache].complete
          /\ \A t \in Callers :
                caller[t].pc = "consult" => dicts[caller[t].lookup].complete
          /\ \A k \in DOMAIN consulted : consulted[k].complete)
    /\ [][\A k \in DOMAIN dicts : dicts[k].published => dicts'[k] = dicts[k]]_vars

\* C28 witness: both threads found the cache empty and built a dict of two
\* entries each; one has published and been consulted while the other is
\* still filling its own.
C28_Witness ==
    /\ load_mode = "concurrent"
    /\ Len(dicts) = 2
    /\ Len(consulted) >= 1
    /\ Len(consulted[1].entries) = 2
    /\ \E t \in Callers : caller[t].pc = "fill" /\ Len(dicts[caller[t].lookup].entries) = 1

====
